---- MODULE Spec2Model ----
(***************************************************************************)
(* Model of godot-export-presets: the config-file lexer/parser             *)
(* (src/unnamed/part_001), the writer (src/unnamed/part_000) and the       *)
(* ConfigFile store (src/src/config-file.ts).                              *)
(*                                                                         *)
(* Text is a sequence of UTF-16 code units (naturals), so the character    *)
(* comparisons of the source (c >= "0", code < 33, ...) are the integer    *)
(* comparisons they are in JavaScript.                                     *)
(***************************************************************************)
EXTENDS Integers, Sequences, FiniteSets, TLC

VARIABLES
    values,          \* ConfigFile.values: the store of one ConfigFile
    lastError,       \* what the last ConfigFile.parse returned
    content,         \* the text parse_config is given; the file save() wrote
    stream,          \* parse_config: the Stream (pos, line)
    pvalues,         \* parse_config: the local map `values` being built
    currentSection,  \* parse_config: the local currentSection
    outcome,         \* parse_config: "running", then how the call ended;
                     \* SpecWrite: "saved" after save(), "loaded" after parse()
    error,           \* parse_config: the error it returned
    stmtStart,       \* history: stream position before the last top-level iteration
    input,           \* history: how `content` was put together
    heap,            \* the JavaScript objects and arrays of the preset functions
    call             \* the last call of a function that returns or throws

vars == <<values, lastError, content, stream, pvalues, currentSection, outcome, error, stmtStart, input, heap, call>>

storeVars == <<values, lastError>>
parseVars == <<content, stream, pvalues, currentSection, outcome, error, stmtStart, input>>
callVars == <<heap, call>>

---------------------------------------------------------------------------
(* Character codes named in the source.                                    *)

chNUL == 0
chTab == 9
chLF == 10
chCR == 13
chSpace == 32
chBang == 33
chQuote == 34
chHash == 35
chLParen == 40
chRParen == 41
chPlus == 43
chComma == 44
chMinus == 45
chDot == 46
chSlash == 47
chZero == 48
chNine == 57
chSemi == 59
chEqual == 61
chUpperA == 65
chUpperZ == 90
chLBracket == 91
chBackslash == 92
chRBracket == 93
chUnderscore == 95
chLowerA == 97
chLowerN == 110
chLowerR == 114
chLowerT == 116
chLowerZ == 122
chTilde == 126

\* Words the source compares token values with.
sTrue == <<116, 114, 117, 101>>
sFalse == <<102, 97, 108, 115, 101>>
sColor == <<67, 111, 108, 111, 114>>
sVector2 == <<86, 101, 99, 116, 111, 114, 50>>
sInf == <<105, 110, 102>>
sInfinity == <<73, 110, 102, 105, 110, 105, 116, 121>>
sNegInf == <<45, 105, 110, 102>>
sNegInfinity == <<45, 73, 110, 102, 105, 110, 105, 116, 121>>
sNan == <<110, 97, 110>>
sNaN == <<78, 97, 78>>
sNull == <<110, 117, 108, 108>>

---------------------------------------------------------------------------
(* Numbers.  A finite double is kept as its shortest decimal form          *)
(* (-1)^neg * m * 10^e with m not divisible by 10 (0 is m = 0, e = 0):     *)
(* the form parseFloat reads and String() writes.  -0 and +0 are one value *)
(* (they are === in JavaScript).                                           *)

NaN == [k |-> "nan", neg |-> FALSE, m |-> 0, e |-> 0]
PosInfinity == [k |-> "inf", neg |-> FALSE, m |-> 0, e |-> 0]
NegInfinity == [k |-> "inf", neg |-> TRUE, m |-> 0, e |-> 0]

RECURSIVE Normalize(_, _, _)
Normalize(neg, m, e) ==
    IF m = 0 THEN [k |-> "fin", neg |-> FALSE, m |-> 0, e |-> 0]
    ELSE IF m % 10 = 0 THEN Normalize(neg, m \div 10, e + 1)
    ELSE [k |-> "fin", neg |-> neg, m |-> m, e |-> e]

Fin(neg, m, e) == Normalize(neg, m, e)

isNaN(n) == n.k = "nan"
isFinite(n) == n.k = "fin"

is_digit(c) == c >= chZero /\ c <= chNine

\* parseFloat on the text the number branch of get_token collects: an
\* optional sign, digits, at most one '.'; NaN when it holds no digit.
RECURSIVE ParseDigits(_, _, _, _, _, _)
ParseDigits(str, i, m, e, seenDot, seenDigit) ==
    IF i > Len(str) THEN [m |-> m, e |-> e, any |-> seenDigit]
    ELSE IF is_digit(str[i])
         THEN ParseDigits(str, i + 1, m * 10 + (str[i] - chZero),
                          IF seenDot THEN e - 1 ELSE e, seenDot, TRUE)
    ELSE IF str[i] = chDot /\ ~seenDot
         THEN ParseDigits(str, i + 1, m, e, TRUE, seenDigit)
    ELSE [m |-> m, e |-> e, any |-> seenDigit]

has_sign(str) == Len(str) > 0 /\ str[1] \in {chMinus, chPlus}

float_of(neg, d) == IF ~d.any THEN NaN ELSE Fin(neg, d.m, d.e)

parseFloat(str) ==
    float_of(has_sign(str) /\ str[1] = chMinus,
             ParseDigits(str, IF has_sign(str) THEN 2 ELSE 1, 0, 0, FALSE, FALSE))

\* String(value) of a number (ECMAScript Number::toString, radix 10), which
\* the writer uses at part_000:65 and in its template literals.
RECURSIVE Digits(_)
Digits(m) == IF m < 10 THEN <<chZero + m>> ELSE Append(Digits(m \div 10), chZero + (m % 10))

Zeros(n) == [i \in 1..n |-> chZero]

NumToString(n) ==
    IF n.k = "nan" THEN sNaN
    ELSE IF n.k = "inf" THEN (IF n.neg THEN sNegInfinity ELSE sInfinity)
    ELSE IF n.m = 0 THEN <<chZero>>
    ELSE LET s == Digits(n.m)
             k == Len(s)
             pt == k + n.e
             ex == pt - 1
             body ==
                 IF k <= pt /\ pt <= 21 THEN s \o Zeros(pt - k)
                 ELSE IF 0 < pt /\ pt <= 21
                      THEN SubSeq(s, 1, pt) \o <<chDot>> \o SubSeq(s, pt + 1, k)
                 ELSE IF -6 < pt /\ pt <= 0
                      THEN <<chZero, chDot>> \o Zeros(-pt) \o s
                 ELSE (IF k = 1 THEN s ELSE <<s[1], chDot>> \o SubSeq(s, 2, k))
                      \o <<101>>
                      \o (IF ex < 0 THEN <<chMinus>> ELSE <<chPlus>>)
                      \o Digits(IF ex < 0 THEN -ex ELSE ex)
         IN  (IF n.neg THEN <<chMinus>> ELSE <<>>) \o body

---------------------------------------------------------------------------
(* Stream and lexer (part_001:34-248).  Stream.saved is left out: save_char *)
(* has no caller, so saved is null throughout.                              *)

NoError == [kind |-> "none", message |-> "", line |-> 0]
ParseError(message, line) == [kind |-> "ParseError", message |-> message, line |-> line]

NewStream == [pos |-> 0, line |-> 1]

advance(s, c) ==
    [pos |-> s.pos + 1, line |-> IF c = chLF THEN s.line + 1 ELSE s.line]

get_char(text, s) ==
    IF s.pos >= Len(text) THEN [c |-> chNUL, s |-> s]
    ELSE [c |-> text[s.pos + 1], s |-> advance(s, text[s.pos + 1])]

peek_char(text, s) == IF s.pos >= Len(text) THEN chNUL ELSE text[s.pos + 1]

is_whitespace(c) == c = chSpace \/ c = chTab \/ c = chCR \/ c = chLF

is_alpha(c) ==
    (c >= chLowerA /\ c <= chLowerZ) \/ (c >= chUpperA /\ c <= chUpperZ) \/ c = chUnderscore

is_alnum(c) == is_alpha(c) \/ is_digit(c)

is_identifier_char(c) ==
    is_alnum(c) \/ c = chSlash \/ c = chDot \/ c = chUnderscore \/ c = chMinus

\* The whitespace loops at part_001:99-106 and 343-350.
RECURSIVE skip_whitespace(_, _)
skip_whitespace(text, s) ==
    IF is_whitespace(peek_char(text, s))
    THEN skip_whitespace(text, get_char(text, s).s)
    ELSE s

\* The comment loops at part_001:130-135 and 139-144.
RECURSIVE skip_comment(_, _)
skip_comment(text, s) ==
    IF peek_char(text, s) = chLF \/ s.pos >= Len(text) \/ peek_char(text, s) = chNUL
    THEN get_char(text, s).s
    ELSE skip_comment(text, get_char(text, s).s)

Tok(type, value, line, s) ==
    [tok |-> [type |-> type, value |-> value, line |-> line], s |-> s, err |-> NoError]
Thrown(err, s) ==
    [tok |-> [type |-> "NONE", value |-> <<>>, line |-> err.line], s |-> s, err |-> err]

\* What an escaped character adds to the string (part_001:155-169).
unescape(ch) ==
    IF ch = chLowerN THEN chLF
    ELSE IF ch = chLowerT THEN chTab
    ELSE IF ch = chLowerR THEN chCR
    ELSE ch

StringTerminators == {chNUL, chLF, chCR, chSpace, chTab, chSemi, chHash}

\* The rule the comment at part_001:173-189 describes: only a quote that is
\* followed by whitespace, end of input or a comment closes the string.
quote_closes_by_lookahead(peek) == peek \in StringTerminators

\* Whether an unescaped quote ends the string (part_001:172-190): the
\* look-ahead test breaks, and so does the statement after it.
quote_closes(peek) ==
    IF peek \in StringTerminators THEN TRUE ELSE TRUE

\* The line an "Unterminated string" error reports: where the stream stands
\* when the input runs out, instead of the token's first line.
unterminated_line_at_end(line, s) == s.line

\* The line an "Unterminated string" error reports (part_001:108, 153).
unterminated_line(line, s) == line

\* The string loop (part_001:148-195): scan_string reads one character,
\* string_char acts on it.
RECURSIVE scan_string(_, _, _, _, _)
string_char(text, ch, s, str, escaped, line) ==
    IF ch = chNUL
    THEN Thrown(ParseError("Unterminated string", unterminated_line(line, s)), s)
    ELSE IF escaped THEN scan_string(text, s, Append(str, unescape(ch)), FALSE, line)
    ELSE IF ch = chBackslash THEN scan_string(text, s, str, TRUE, line)
    ELSE IF ch = chQuote /\ quote_closes(peek_char(text, s)) THEN Tok("STRING", str, line, s)
    ELSE scan_string(text, s, Append(str, ch), FALSE, line)

scan_string(text, s, str, escaped, line) ==
    string_char(text, peek_char(text, s), get_char(text, s).s, str, escaped, line)

\* The number loop (part_001:209-220).
RECURSIVE scan_number(_, _, _, _)
scan_number(text, s, numStr, hasDot) ==
    IF is_digit(peek_char(text, s)) \/ peek_char(text, s) = chDot
    THEN IF peek_char(text, s) = chDot /\ hasDot
         THEN [str |-> numStr, s |-> s]
         ELSE scan_number(text, get_char(text, s).s, Append(numStr, peek_char(text, s)),
                          hasDot \/ peek_char(text, s) = chDot)
    ELSE [str |-> numStr, s |-> s]

\* part_001:221-225
number_token(num, line, s) ==
    IF isNaN(num) THEN Thrown(ParseError("Invalid number", line), s)
    ELSE Tok("NUMBER", num, line, s)

\* The identifier loop (part_001:229-236).
RECURSIVE scan_identifier(_, _, _)
scan_identifier(text, s, ident) ==
    IF is_identifier_char(peek_char(text, s))
    THEN scan_identifier(text, get_char(text, s).s, Append(ident, peek_char(text, s)))
    ELSE [str |-> ident, s |-> s]

\* part_001:237-242
identifier_token(ident, line, s) ==
    IF ident = sTrue THEN Tok("BOOLEAN", TRUE, line, s)
    ELSE IF ident = sFalse THEN Tok("BOOLEAN", FALSE, line, s)
    ELSE Tok("IDENTIFIER", ident, line, s)

starts_number(c, peek) ==
    \/ is_digit(c)
    \/ (c = chMinus /\ is_digit(peek))
    \/ (c = chPlus /\ is_digit(peek))
    \/ (c = chDot /\ is_digit(peek))

\* Scanned text, then the token made of it.
number_scanned(n, line) == number_token(parseFloat(n.str), line, n.s)
identifier_scanned(i, line) == identifier_token(i.str, line, i.s)

\* get_token: skip whitespace (get_token), note the line and read one
\* character (token_at), then the switch on it (token_of).
RECURSIVE get_token(_, _)
token_of(text, c, s, line) ==
    IF c = chNUL THEN Tok("EOF", <<>>, line, s)
    ELSE IF c = chLBracket THEN Tok("BRACKET_OPEN", <<c>>, line, s)
    ELSE IF c = chRBracket THEN Tok("BRACKET_CLOSE", <<c>>, line, s)
    ELSE IF c = chLParen THEN Tok("PARENTHESIS_OPEN", <<c>>, line, s)
    ELSE IF c = chRParen THEN Tok("PARENTHESIS_CLOSE", <<c>>, line, s)
    ELSE IF c = chEqual THEN Tok("EQUAL", <<c>>, line, s)
    ELSE IF c = chComma THEN Tok("COMMA", <<c>>, line, s)
    ELSE IF c = chSemi \/ c = chHash THEN get_token(text, skip_comment(text, s))
    ELSE IF c = chQuote THEN scan_string(text, s, <<>>, FALSE, line)
    ELSE IF starts_number(c, peek_char(text, s))
    THEN number_scanned(scan_number(text, s, <<c>>, c = chDot), line)
    ELSE IF is_alpha(c) \/ c = chSlash
    THEN identifier_scanned(scan_identifier(text, s, <<c>>), line)
    ELSE Thrown(ParseError("Unexpected character", line), s)

token_at(text, s1) == token_of(text, peek_char(text, s1), get_char(text, s1).s, s1.line)

get_token(text, s0) == token_at(text, skip_whitespace(text, s0))

---------------------------------------------------------------------------
(* Values and ordered maps.  A JavaScript Map, and a plain object, is the   *)
(* sequence of its entries in insertion order.                              *)

Null == [t |-> "null"]
Undefined == [t |-> "undefined"]
Bool(b) == [t |-> "bool", b |-> b]
Num(n) == [t |-> "num", n |-> n]
Str(s) == [t |-> "str", s |-> s]
Obj(f) == [t |-> "obj", f |-> f]

Entry(k, v) == [k |-> k, v |-> v]

Map_has(m, k) == \E i \in 1..Len(m) : m[i].k = k
Map_get(m, k) == m[CHOOSE i \in 1..Len(m) : m[i].k = k].v
Map_set(m, k, v) ==
    IF Map_has(m, k)
    THEN [i \in 1..Len(m) |-> IF m[i].k = k THEN Entry(k, v) ELSE m[i]]
    ELSE Append(m, Entry(k, v))
Map_keys(m) == [i \in 1..Len(m) |-> m[i].k]

\* Property names of the objects parse_value builds.
kr == <<114>>
kg == <<103>>
kb == <<98>>
ka == <<97>>
kx == <<120>>
ky == <<121>>

ColorOf(r, g, b, a) ==
    Obj(<<Entry(kr, Num(r)), Entry(kg, Num(g)), Entry(kb, Num(b)), Entry(ka, Num(a))>>)
Vector2Of(x, y) == Obj(<<Entry(kx, Num(x)), Entry(ky, Num(y))>>)

---------------------------------------------------------------------------
(* Value parser (part_001:250-330).                                         *)

ArgsDone(args, s) == [args |-> args, s |-> s, err |-> NoError]
ArgsThrown(err, s) == [args |-> <<>>, s |-> s, err |-> err]

\* One constructor argument from a token (part_001:276-292).
construct_arg(tok) ==
    IF tok.type = "NUMBER" THEN [ok |-> TRUE, n |-> tok.value, message |-> ""]
    ELSE IF tok.type = "IDENTIFIER"
    THEN IF tok.value = sInf \/ tok.value = sInfinity
         THEN [ok |-> TRUE, n |-> PosInfinity, message |-> ""]
         ELSE IF tok.value = sNegInf \/ tok.value = sNegInfinity
         THEN [ok |-> TRUE, n |-> NegInfinity, message |-> ""]
         ELSE IF tok.value = sNan \/ tok.value = sNaN
         THEN [ok |-> TRUE, n |-> NaN, message |-> ""]
         ELSE [ok |-> FALSE, n |-> NaN, message |-> "Expected number in constructor, got identifier"]
    ELSE [ok |-> FALSE, n |-> NaN, message |-> "Expected number in constructor"]

\* The loop of parse_construct_args (part_001:258-294): construct_args_loop
\* is one pass; construct_separator acts on the token read when not first,
\* construct_item on the argument token, construct_push on the argument.
RECURSIVE construct_args_loop(_, _, _, _)
construct_push(text, t, a, args) ==
    IF ~a.ok THEN ArgsThrown(ParseError(a.message, t.tok.line), t.s)
    ELSE construct_args_loop(text, t.s, Append(args, a.n), FALSE)

construct_item(text, t, args, first) ==
    IF t.err # NoError THEN ArgsThrown(t.err, t.s)
    ELSE IF first /\ t.tok.type = "PARENTHESIS_CLOSE" THEN ArgsDone(args, t.s)
    ELSE construct_push(text, t, construct_arg(t.tok), args)

construct_separator(text, sep, args) ==
    IF sep.err # NoError THEN ArgsThrown(sep.err, sep.s)
    ELSE IF sep.tok.type = "COMMA" THEN construct_item(text, get_token(text, sep.s), args, FALSE)
    ELSE IF sep.tok.type = "PARENTHESIS_CLOSE" THEN ArgsDone(args, sep.s)
    ELSE ArgsThrown(ParseError("Expected ',' or ')' in constructor", sep.tok.line), sep.s)

construct_args_loop(text, s, args, first) ==
    IF first THEN construct_item(text, get_token(text, s), args, TRUE)
    ELSE construct_separator(text, get_token(text, s), args)

\* part_001:252-256
construct_open(text, t) ==
    IF t.err # NoError THEN ArgsThrown(t.err, t.s)
    ELSE IF t.tok.type # "PARENTHESIS_OPEN"
    THEN ArgsThrown(ParseError("Expected '(' in constructor", t.tok.line), t.s)
    ELSE construct_args_loop(text, t.s, <<>>, TRUE)

parse_construct_args(text, s) == construct_open(text, get_token(text, s))

ValueDone(v, s) == [value |-> v, s |-> s, err |-> NoError]
ValueThrown(err, s) == [value |-> Null, s |-> s, err |-> err]

\* An arity test that only rejects too few arguments.
arity_at_least(args, n) == Len(args) >= n

\* The arity tests of parse_value (part_001:313, 319).
arity_ok(args, n) == Len(args) = n

\* part_001:312-316
color_value(tok, a) ==
    IF a.err # NoError THEN ValueThrown(a.err, a.s)
    ELSE IF ~arity_ok(a.args, 4)
    THEN ValueThrown(ParseError("Expected 4 arguments for Color constructor", tok.line), a.s)
    ELSE ValueDone(ColorOf(a.args[1], a.args[2], a.args[3], a.args[4]), a.s)

\* part_001:318-322
vector2_value(tok, a) ==
    IF a.err # NoError THEN ValueThrown(a.err, a.s)
    ELSE IF ~arity_ok(a.args, 2)
    THEN ValueThrown(ParseError("Expected 2 arguments for Vector2 constructor", tok.line), a.s)
    ELSE ValueDone(Vector2Of(a.args[1], a.args[2]), a.s)

\* The switch of parse_value (part_001:302-329) on the token it read.
value_of_token(text, t) ==
    IF t.err # NoError THEN ValueThrown(t.err, t.s)
    ELSE IF t.tok.type = "STRING" THEN ValueDone(Str(t.tok.value), t.s)
    ELSE IF t.tok.type = "NUMBER" THEN ValueDone(Num(t.tok.value), t.s)
    ELSE IF t.tok.type = "BOOLEAN" THEN ValueDone(Bool(t.tok.value), t.s)
    ELSE IF t.tok.type = "IDENTIFIER"
    THEN IF t.tok.value = sColor THEN color_value(t.tok, parse_construct_args(text, t.s))
         ELSE IF t.tok.value = sVector2 THEN vector2_value(t.tok, parse_construct_args(text, t.s))
         ELSE ValueThrown(ParseError("Unknown identifier", t.tok.line), t.s)
    ELSE ValueThrown(ParseError("Unexpected token type", t.tok.line), t.s)

parse_value(text, s) == value_of_token(text, get_token(text, s))

---------------------------------------------------------------------------
(* Document parser (part_001:332-400).  A parse state is the locals of      *)
(* parse_config: stream, values, currentSection, and how the call ended.    *)

NewMap == <<>>

ParseStart ==
    [stream |-> NewStream, values |-> NewMap, currentSection |-> <<>>,
     outcome |-> "running", error |-> NoError]

\* The catch clause (part_001:392-397): a ParseError is returned with the
\* values built so far, anything else is thrown on.
caught(st, err, s) ==
    [st EXCEPT !.stream = s, !.error = err,
               !.outcome = IF err.kind = "ParseError" THEN "error" ELSE "thrown"]

\* sectionName.replace(/\\\]/g, "]") (part_001:367).
RECURSIVE unescape_brackets(_)
unescape_brackets(name) ==
    IF Len(name) = 0 THEN <<>>
    ELSE IF Len(name) >= 2 /\ name[1] = chBackslash /\ name[2] = chRBracket
    THEN <<chRBracket>> \o unescape_brackets(SubSeq(name, 3, Len(name)))
    ELSE <<name[1]>> \o unescape_brackets(SubSeq(name, 2, Len(name)))

\* if (!values.has(section)) values.set(section, new Map())
ensure_section(vals, section) ==
    IF Map_has(vals, section) THEN vals ELSE Map_set(vals, section, NewMap)

\* values.get(section).set(key, value), the section being there
put_value(vals, section, key, value) ==
    Map_set(vals, section, Map_set(Map_get(vals, section), key, value))

\* A header that starts its section afresh, dropping the keys it had.
open_section_cleared(st, sectionName, s) ==
    [st EXCEPT !.stream = s, !.currentSection = sectionName,
               !.values = Map_set(st.values, sectionName, NewMap)]

\* part_001:367-371
open_section(st, sectionName, s) ==
    [st EXCEPT !.stream = s, !.currentSection = sectionName,
               !.values = ensure_section(st.values, sectionName)]

\* The section-header branch (part_001:357-374): section_header reads the
\* name token, section_name checks it, section_close checks the ']'.
section_close(st, sectionToken, closeToken) ==
    IF closeToken.err # NoError THEN caught(st, closeToken.err, closeToken.s)
    ELSE IF closeToken.tok.type # "BRACKET_CLOSE"
    THEN caught(st, ParseError("Expected ']' after section name", closeToken.tok.line), closeToken.s)
    ELSE open_section(st, unescape_brackets(sectionToken.tok.value), closeToken.s)

section_name(text, st, sectionToken) ==
    IF sectionToken.err # NoError THEN caught(st, sectionToken.err, sectionToken.s)
    ELSE IF sectionToken.tok.type \notin {"IDENTIFIER", "STRING"}
    THEN caught(st, ParseError("Expected section name", sectionToken.tok.line), sectionToken.s)
    ELSE section_close(st, sectionToken, get_token(text, sectionToken.s))

section_header(text, st, s) == section_name(text, st, get_token(text, s))

\* Storing the pair with the section created before the value is known to
\* have parsed.
key_store_section_first(st, key, v) ==
    IF v.err # NoError
    THEN caught([st EXCEPT !.values = ensure_section(st.values, st.currentSection)], v.err, v.s)
    ELSE [st EXCEPT !.stream = v.s,
                    !.values = put_value(ensure_section(st.values, st.currentSection),
                                         st.currentSection, key, v.value)]

\* part_001:382-387, v being what parse_value returned or threw
key_store(st, key, v) ==
    IF v.err # NoError THEN caught(st, v.err, v.s)
    ELSE [st EXCEPT !.stream = v.s,
                    !.values = put_value(ensure_section(st.values, st.currentSection),
                                         st.currentSection, key, v.value)]

\* part_001:378-382
key_equal(text, st, key, equalToken) ==
    IF equalToken.err # NoError THEN caught(st, equalToken.err, equalToken.s)
    ELSE IF equalToken.tok.type # "EQUAL"
    THEN caught(st, ParseError("Expected '=' after key", equalToken.tok.line), equalToken.s)
    ELSE key_store(st, key, parse_value(text, equalToken.s))

\* The key/value branch (part_001:375-387), after its key token.
key_value(text, st, key, s) == key_equal(text, st, key, get_token(text, s))

\* The first token of one iteration of the top-level loop (part_001:342-352).
first_token(text, st) == get_token(text, skip_whitespace(text, st.stream))

\* A top-level loop that leaves a token of no branch unread.
skipped_unread(st, t) == st

\* A top-level loop that takes a token of no branch for a syntax error.
skipped_as_error(st, t) == caught(st, ParseError("Unexpected token", t.tok.line), t.s)

\* The token no branch of the dispatch takes (part_001:388-391): get_token
\* has consumed it and the loop goes on.
skipped(st, t) == [st EXCEPT !.stream = t.s]

\* The dispatch on that token (part_001:353-390).
statement(text, st, t) ==
    IF t.err # NoError THEN caught(st, t.err, t.s)
    ELSE IF t.tok.type = "EOF" THEN [st EXCEPT !.stream = t.s, !.outcome = "ok"]
    ELSE IF t.tok.type = "BRACKET_OPEN" THEN section_header(text, st, t.s)
    ELSE IF t.tok.type \in {"IDENTIFIER", "STRING"} THEN key_value(text, st, t.tok.value, t.s)
    ELSE IF t.tok.type = "BRACKET_CLOSE"
    THEN caught(st, ParseError("Unexpected ']'", t.tok.line), t.s)
    ELSE skipped(st, t)

\* One iteration of the top-level loop (part_001:341-391).
parse_iteration(text, st) == statement(text, st, first_token(text, st))

RECURSIVE parse_loop(_, _)
parse_loop(text, st) ==
    IF st.outcome # "running" THEN st ELSE parse_loop(text, parse_iteration(text, st))

returned(st) == [values |-> st.values, error |-> st.error, outcome |-> st.outcome]

\* parse_config(content): {values, error}, and whether it returned.
parse_config(text) == returned(parse_loop(text, ParseStart))

---------------------------------------------------------------------------
(* Writer (part_000).                                                       *)

\* str.replace(/<c>/g, <with>): every occurrence of one character.
RECURSIVE replace_char(_, _, _)
replace_char(str, c, with) ==
    IF Len(str) = 0 THEN <<>>
    ELSE (IF str[1] = c THEN with ELSE <<str[1]>>)
         \o replace_char(SubSeq(str, 2, Len(str)), c, with)

\* A needs_quotes that forgets the lower bound of the printable range.
needs_quotes_no_lower_bound(str) ==
    \/ Len(str) = 0
    \/ \E i \in 1..Len(str) :
          str[i] \in {chEqual, chQuote, chSemi, chLBracket, chRBracket} \/ str[i] > chTilde

needs_quotes(str) ==
    \/ Len(str) = 0
    \/ \E i \in 1..Len(str) :
          \/ str[i] = chEqual
          \/ str[i] = chQuote
          \/ str[i] = chSemi
          \/ str[i] = chLBracket
          \/ str[i] = chRBracket
          \/ str[i] < chBang
          \/ str[i] > chTilde

\* An escape_string that also writes a line break as backslash-n.
escape_string_newlines(str) ==
    replace_char(replace_char(replace_char(str, chBackslash, <<chBackslash, chBackslash>>),
                              chQuote, <<chBackslash, chQuote>>),
                 chLF, <<chBackslash, chLowerN>>)

escape_string(str) ==
    replace_char(replace_char(str, chBackslash, <<chBackslash, chBackslash>>),
                 chQuote, <<chBackslash, chQuote>>)

encode_key(key) ==
    IF needs_quotes(key)
    THEN <<chQuote>>
         \o replace_char(replace_char(key, chBackslash, <<chBackslash, chBackslash>>),
                         chQuote, <<chBackslash, chQuote>>)
         \o <<chQuote>>
    ELSE key

\* typeof value.<k> === "number" for a property of an object.
has_number(value, k) ==
    value.t = "obj" /\ Map_has(value.f, k) /\ Map_get(value.f, k).t = "num"

is_Color(value) ==
    has_number(value, kr) /\ has_number(value, kg) /\ has_number(value, kb) /\ has_number(value, ka)

is_Vector2(value) == has_number(value, kx) /\ has_number(value, ky)

sCommaSpace == <<chComma, chSpace>>
sObjectObject == <<91, 111, 98, 106, 101, 99, 116, 32, 79, 98, 106, 101, 99, 116, 93>>

\* String(value) (part_000:103) of a number: JavaScript's own words for the
\* values that are not finite.
number_String(n) ==
    IF isNaN(n) THEN sNaN
    ELSE IF ~isFinite(n) THEN (IF ~n.neg THEN sInfinity ELSE sNegInfinity)
    ELSE NumToString(n)

\* String(value): a string is itself, a plain object is [object Object],
\* an array is its elements' strings joined by commas, null and undefined
\* elements giving the empty string.
RECURSIVE join_commas(_)
join_commas(strs) ==
    IF Len(strs) = 0 THEN <<>>
    ELSE IF Len(strs) = 1 THEN strs[1]
    ELSE strs[1] \o <<chComma>> \o join_commas(Tail(strs))

RECURSIVE to_String(_)
element_String(v) == IF v.t \in {"null", "undefined"} THEN <<>> ELSE to_String(v)

to_String(value) ==
    IF value.t = "null" THEN sNull
    ELSE IF value.t = "str" THEN value.s
    ELSE IF value.t = "num" THEN number_String(value.n)
    ELSE IF value.t = "bool" THEN (IF value.b THEN sTrue ELSE sFalse)
    ELSE IF value.t = "arr"
    THEN join_commas([i \in 1..Len(value.items) |-> element_String(value.items[i])])
    ELSE sObjectObject

serialize_value(value) ==
    IF value.t \in {"null", "undefined"} THEN sNull
    ELSE IF value.t = "str" THEN <<chQuote>> \o escape_string(value.s) \o <<chQuote>>
    ELSE IF value.t = "num"
    THEN IF isNaN(value.n) THEN sNan
         ELSE IF ~isFinite(value.n) THEN (IF ~value.n.neg THEN sInf ELSE sNegInf)
         ELSE NumToString(value.n)
    ELSE IF value.t = "bool" THEN (IF value.b THEN sTrue ELSE sFalse)
    ELSE IF is_Color(value)
    THEN sColor \o <<chLParen>>
         \o NumToString(Map_get(value.f, kr).n) \o sCommaSpace
         \o NumToString(Map_get(value.f, kg).n) \o sCommaSpace
         \o NumToString(Map_get(value.f, kb).n) \o sCommaSpace
         \o NumToString(Map_get(value.f, ka).n) \o <<chRParen>>
    ELSE IF is_Vector2(value)
    THEN sVector2 \o <<chLParen>>
         \o NumToString(Map_get(value.f, kx).n) \o sCommaSpace
         \o NumToString(Map_get(value.f, ky).n) \o <<chRParen>>
    ELSE to_String(value)

\* The lines one section contributes (part_000:113-129).
section_lines(vals, i) ==
    LET section == vals[i].k
        keys == vals[i].v
    IN  (IF i > 1 THEN << <<>> >> ELSE <<>>)
        \o (IF Len(section) > 0
            THEN << <<chLBracket>> \o replace_char(section, chRBracket, <<chBackslash, chRBracket>>)
                      \o <<chRBracket>>, <<>> >>
            ELSE <<>>)
        \o [j \in 1..Len(keys) |->
               encode_key(keys[j].k) \o <<chEqual>> \o serialize_value(keys[j].v)]

RECURSIVE all_lines(_, _)
all_lines(vals, i) ==
    IF i > Len(vals) THEN <<>> ELSE section_lines(vals, i) \o all_lines(vals, i + 1)

\* lines.join("\n")
RECURSIVE join_lines(_)
join_lines(lines) ==
    IF Len(lines) = 0 THEN <<>>
    ELSE IF Len(lines) = 1 THEN lines[1]
    ELSE lines[1] \o <<chLF>> \o join_lines(Tail(lines))

serialize_config(vals) == join_lines(all_lines(vals, 1)) \o <<chLF>>

---------------------------------------------------------------------------
(* ConfigFile (src/src/config-file.ts).                                     *)

\* A set that takes an overwritten key out and puts it back at the end.
moved_to_end(m, key, value) == Append(SelectSeq(m, LAMBDA e : e.k # key), Entry(key, value))

store_set_moves(vals, section, key, value) ==
    Map_set(ensure_section(vals, section), section,
            moved_to_end(Map_get(ensure_section(vals, section), section), key, value))

\* ConfigFile.set_value (config-file.ts:61-66) on the Map of sections
store_set(vals, section, key, value) ==
    put_value(ensure_section(vals, section), section, key, value)

\* The queries of ConfigFile (config-file.ts:82-123) on the Map of sections.
has_section(vals, section) == Map_has(vals, section)

has_section_key(vals, section, key) ==
    IF ~Map_has(vals, section) THEN FALSE ELSE Map_has(Map_get(vals, section), key)

get_sections(vals) == Map_keys(vals)

get_section_keys(vals, section) ==
    IF ~Map_has(vals, section) THEN <<>> ELSE Map_keys(Map_get(vals, section))

encode_to_text == serialize_config(values)

---------------------------------------------------------------------------
(* Inputs of parse_config.                                                  *)

BoundedSeq(S, n) == UNION {[1..m -> S] : m \in 0..n}

RECURSIVE Flatten(_)
Flatten(seqs) == IF Len(seqs) = 0 THEN <<>> ELSE seqs[1] \o Flatten(Tail(seqs))

MaxFrags == 4
MaxArgItems == 9

\* The characters free-form inputs are made of:  s = 1 " LF ; [ ] \
Fragments == <<115, chEqual, 49, chQuote, chLF, chSemi, chLBracket, chRBracket, chBackslash>>

\* Two complete lines that may stand before the free-form part:  [t] LF k=1 LF
Preamble == <<91, 116, 93, 10, 107, 61, 49, 10>>

FragInputs ==
    {[fam |-> "frags", pre |-> p, items |-> it] :
        p \in {<<>>, Preamble}, it \in BoundedSeq(1..Len(Fragments), MaxFrags)}

\* Constructor calls k=Name(...): each item is a number (written as the
\* digit of its position) or a comma.
CtorInputs ==
    {[fam |-> "ctor", name |-> n, items |-> it] :
        n \in {sColor, sVector2}, it \in BoundedSeq({"N", "C"}, MaxArgItems)}

ContainerTexts == <<
    \* k=[]\n
    <<107, 61, 91, 93, 10>>,
    \* k=[1, 2, 3]\n
    <<107, 61, 91, 49, 44, 32, 50, 44, 32, 51, 93, 10>>,
    \* k=["a", 42, true]\n
    <<107, 61, 91, 34, 97, 34, 44, 32, 52, 50, 44, 32, 116, 114, 117, 101, 93, 10>>,
    \* k=[[1, 2], [3, 4]]\n
    <<107, 61, 91, 91, 49, 44, 32, 50, 93, 44, 32, 91, 51, 44, 32, 52, 93, 93, 10>>,
    \* k={\n"d": 0.2\n}\n
    <<107, 61, 123, 10, 34, 100, 34, 58, 32, 48, 46, 50, 10, 125, 10>>,
    \* k={\n"o": {\n"i": 42\n}\n}\n
    <<107, 61, 123, 10, 34, 111, 34, 58, 32, 123, 10, 34, 105, 34, 58, 32, 52, 50, 10, 125, 10, 125, 10>>,
    \* k=PackedStringArray()\n
    <<107, 61, 80, 97, 99, 107, 101, 100, 83, 116, 114, 105, 110, 103, 65, 114, 114, 97, 121, 40, 41, 10>>,
    \* k=PackedStringArray("a", "b")\n
    <<107, 61, 80, 97, 99, 107, 101, 100, 83, 116, 114, 105, 110, 103, 65, 114, 114, 97, 121, 40, 34, 97, 34, 44, 32, 34, 98, 34, 41, 10>>,
    \* k=PoolStringArray("a", "b")\n
    <<107, 61, 80, 111, 111, 108, 83, 116, 114, 105, 110, 103, 65, 114, 114, 97, 121, 40, 34, 97, 34, 44, 32, 34, 98, 34, 41, 10>>,
    \* k=StringArray("a", "b")\n
    <<107, 61, 83, 116, 114, 105, 110, 103, 65, 114, 114, 97, 121, 40, 34, 97, 34, 44, 32, 34, 98, 34, 41, 10>> >>

ObjectTexts == <<
    \* k=Object(Foo)\n
    <<107, 61, 79, 98, 106, 101, 99, 116, 40, 70, 111, 111, 41, 10>>,
    \* k=Object(Foo,"p":1)\n
    <<107, 61, 79, 98, 106, 101, 99, 116, 40, 70, 111, 111, 44, 34, 112, 34, 58, 49, 41, 10>>,
    \* k=Object(Foo,"p":null)\n
    <<107, 61, 79, 98, 106, 101, 99, 116, 40, 70, 111, 111, 44, 34, 112, 34, 58, 110, 117, 108, 108, 41, 10>>,
    \* k=[Object(Foo,"p":1)]\n
    <<107, 61, 91, 79, 98, 106, 101, 99, 116, 40, 70, 111, 111, 44, 34, 112, 34, 58, 49, 41, 93, 10>>,
    \* k={\n"e": [Object(Foo)]\n}\n
    <<107, 61, 123, 10, 34, 101, 34, 58, 32, 91, 79, 98, 106, 101, 99, 116, 40, 70, 111, 111, 41, 93, 10, 125, 10>> >>

ContainerInputs == {[fam |-> "container", idx |-> i] : i \in 1..Len(ContainerTexts)}
ObjectInputs == {[fam |-> "object", idx |-> i] : i \in 1..Len(ObjectTexts)}

ParseInputs == FragInputs \cup CtorInputs \cup ContainerInputs \cup ObjectInputs

kKey == <<107>>

Render(in) ==
    IF in.fam = "frags"
    THEN in.pre \o [i \in 1..Len(in.items) |-> Fragments[in.items[i]]]
    ELSE IF in.fam = "ctor"
    THEN kKey \o <<chEqual>> \o in.name \o <<chLParen>>
         \o [i \in 1..Len(in.items) |->
                IF in.items[i] = "N" THEN chZero + (i % 10) ELSE chComma]
         \o <<chRParen, chLF>>
    ELSE IF in.fam = "container" THEN ContainerTexts[in.idx]
    ELSE ObjectTexts[in.idx]

NoInput == [fam |-> "none"]

---------------------------------------------------------------------------
(* SpecParse: one call of parse_config on a drawn input, one action per     *)
(* iteration of its top-level loop.                                         *)

NoCall == [op |-> "none"]

StoreIdle == values = NewMap /\ lastError = NoError /\ heap = <<>> /\ call = NoCall

InitParse ==
    /\ input \in ParseInputs
    /\ content = Render(input)
    /\ stream = NewStream
    /\ pvalues = NewMap
    /\ currentSection = <<>>
    /\ outcome = "running"
    /\ error = NoError
    /\ stmtStart = 0
    /\ StoreIdle

Locals ==
    [stream |-> stream, values |-> pvalues, currentSection |-> currentSection,
     outcome |-> outcome, error |-> error]

type_of(t) == IF t.err # NoError THEN "THROWN" ELSE t.tok.type

FirstType == type_of(first_token(content, Locals))

Becomes(n) ==
    /\ stream' = n.stream
    /\ pvalues' = n.values
    /\ currentSection' = n.currentSection
    /\ outcome' = n.outcome
    /\ error' = n.error
    /\ stmtStart' = stream.pos
    /\ UNCHANGED <<content, input, storeVars, callVars>>

Iterate == Becomes(parse_iteration(content, Locals))

ParseEnd == outcome = "running" /\ FirstType = "EOF" /\ Iterate
ParseSectionHeader == outcome = "running" /\ FirstType = "BRACKET_OPEN" /\ Iterate
ParseKeyValue == outcome = "running" /\ FirstType \in {"IDENTIFIER", "STRING"} /\ Iterate
ParseUnmatchedClose == outcome = "running" /\ FirstType = "BRACKET_CLOSE" /\ Iterate
ParseSkippedToken ==
    /\ outcome = "running"
    /\ FirstType \in {"NUMBER", "BOOLEAN", "EQUAL", "COMMA", "PARENTHESIS_OPEN", "PARENTHESIS_CLOSE"}
    /\ Iterate
ParseLexError == outcome = "running" /\ FirstType = "THROWN" /\ Iterate

NextParse ==
    \/ ParseEnd
    \/ ParseSectionHeader
    \/ ParseKeyValue
    \/ ParseUnmatchedClose
    \/ ParseSkippedToken
    \/ ParseLexError

SpecParse == InitParse /\ [][NextParse]_vars


---------------------------------------------------------------------------
(* Spec: one ConfigFile under set_value, clear and parse.                   *)

MaxEntries == 2

sSection == <<115>>
sKeyAEqB == <<97, 61, 98>>

StoreSections == {<<>>, sSection}
StoreKeys == {kKey, sKeyAEqB}

Seven == Fin(FALSE, 7, 0)
Half == Fin(FALSE, 5, -1)

\* "a", a line break, a double quote
sMultiLine == <<97, 10, 34>>

StoreValues ==
    {Null, Bool(TRUE), Num(Seven), Num(NaN), Str(sMultiLine),
     ColorOf(Fin(FALSE, 0, 0), Half, Fin(FALSE, 1, 0), Fin(FALSE, 1, 0)),
     Vector2Of(Fin(FALSE, 3, 0), Fin(TRUE, 4, 0))}

\* Texts handed to ConfigFile.parse besides the file's own encode_to_text():
\*   k=7 LF      [s] LF k=      "a=b"=7 LF      [s] LF
StoreTexts ==
    {<<107, 61, 55, 10>>,
     <<91, 115, 93, 10, 107, 61>>,
     <<34, 97, 61, 98, 34, 61, 55, 10>>,
     <<91, 115, 93, 10>>}

RECURSIVE CountEntries(_, _)
CountEntries(vals, i) ==
    IF i > Len(vals) THEN 0 ELSE Len(vals[i].v) + CountEntries(vals, i + 1)

ParseIdle ==
    /\ input = NoInput
    /\ content = <<>>
    /\ stream = NewStream
    /\ pvalues = NewMap
    /\ currentSection = <<>>
    /\ outcome = "idle"
    /\ error = NoError
    /\ stmtStart = 0

Init == StoreIdle /\ ParseIdle

\* ConfigFile.set_value (config-file.ts:61-66)
set_value(section, key, value) ==
    /\ \/ CountEntries(values, 1) < MaxEntries
       \/ (Map_has(values, section) /\ Map_has(Map_get(values, section), key))
    /\ values' = store_set(values, section, key, value)
    /\ UNCHANGED <<lastError, parseVars, callVars>>

\* ConfigFile.clear (config-file.ts:103-105)
clear ==
    /\ values' = NewMap
    /\ UNCHANGED <<lastError, parseVars, callVars>>

\* A parse that installs the returned document also when it comes with an
\* error.
parse_result_partial(r) == lastError' = r.error /\ values' = r.values

\* ConfigFile.parse (config-file.ts:18-25), r being what parse_config returned
parse_result(r) ==
    IF r.error # NoError
    THEN lastError' = r.error /\ UNCHANGED values
    ELSE lastError' = NoError /\ values' = r.values

parse(text) ==
    /\ parse_result(parse_config(text))
    /\ UNCHANGED <<parseVars, callVars>>

Next ==
    \/ \E section \in StoreSections, key \in StoreKeys, value \in StoreValues :
          set_value(section, key, value)
    \/ clear
    \/ \E text \in StoreTexts \cup {encode_to_text} : parse(text)

Spec == Init /\ [][Next]_vars

---------------------------------------------------------------------------
(* SpecParseLive: SpecParse with the loop of parse_config running on (the   *)
(* while (true) of part_001:341): a call that has not returned does not     *)
(* stand still for ever.  LoopRuns is any step of a running call; with the  *)
(* subscript it is a step that moves in the text or ends the call, which is *)
(* the only kind of step an iteration of the loop takes.                    *)

LoopRuns ==
    /\ outcome = "running"
    /\ outcome' \in {"running", "ok", "error", "thrown"}
    /\ stream' \in [pos : stream.pos..Len(content), line : stream.line..(Len(content) + 1)]

SpecParseLive == InitParse /\ [][NextParse]_vars /\ WF_<<stream, outcome>>(LoopRuns)

---------------------------------------------------------------------------
(* SpecWrite: a fresh ConfigFile gets one value, is saved, and the saved    *)
(* text is parsed back.                                                     *)

MaxKeyLen == 3
MaxStrLen == 3

\* space ! ~ DEL e-acute = " ; [ ] \ a
KeyAlphabet == {32, 33, 126, 127, 233, 61, 34, 59, 91, 93, 92, 97}

\* LF TAB CR " \ ; # = a n space
StringAlphabet == {10, 9, 13, 34, 92, 59, 35, 61, 97, 110, 32}

WriteInputs ==
    {[fam |-> "key", section |-> sSection, key |-> k, value |-> Num(Seven)] :
        k \in BoundedSeq(KeyAlphabet, MaxKeyLen)}
    \cup
    {[fam |-> "string", section |-> sSection, key |-> kKey, value |-> Str(v)] :
        v \in BoundedSeq(StringAlphabet, MaxStrLen)}

InitWrite ==
    /\ input \in WriteInputs
    /\ StoreIdle
    /\ content = <<>>
    /\ stream = NewStream
    /\ pvalues = NewMap
    /\ currentSection = <<>>
    /\ outcome = "idle"
    /\ error = NoError
    /\ stmtStart = 0

WriteSet ==
    /\ values = NewMap
    /\ outcome = "idle"
    /\ set_value(input.section, input.key, input.value)

\* ConfigFile.save (config-file.ts:72-75): the text written to the file
save ==
    /\ values # NewMap
    /\ outcome = "idle"
    /\ content' = serialize_config(values)
    /\ outcome' = "saved"
    /\ UNCHANGED <<values, lastError, input, stream, pvalues, currentSection, error, stmtStart, callVars>>

\* ConfigFile.parse of the saved text
load ==
    /\ outcome = "saved"
    /\ parse_result(parse_config(content))
    /\ outcome' = "loaded"
    /\ UNCHANGED <<input, content, stream, pvalues, currentSection, error, stmtStart, callVars>>

NextWrite == WriteSet \/ save \/ load

SpecWrite == InitWrite /\ [][NextWrite]_vars

---------------------------------------------------------------------------
(* JavaScript objects and arrays of the preset functions.  The heap is the  *)
(* sequence of the objects allocated so far, a reference is an index into   *)
(* it, and an object is the sequence of its own properties in insertion     *)
(* order.  Property names are not integer-like, so that order is the        *)
(* enumeration order of Object.entries and of the spread syntax.            *)

Arr(items) == [t |-> "arr", items |-> items]
Ref(r) == [t |-> "ref", r |-> r]

ObjectCell(f) == [kind |-> "object", f |-> f]
ArrayCell(items) == [kind |-> "array", items |-> items]

HeapRef(h, r) == [h |-> h, r |-> r]

\* An object or array literal: a new cell.
alloc(h, cell) == HeapRef(Append(h, cell), Len(h) + 1)

\* obj[key], obj[key] = v, delete obj[key]
prop_get(h, r, key) == IF Map_has(h[r].f, key) THEN Map_get(h[r].f, key) ELSE Undefined
prop_set(h, r, key, v) == [h EXCEPT ![r].f = Map_set(@, key, v)]
prop_delete(h, r, key) == [h EXCEPT ![r].f = SelectSeq(@, LAMBDA e : e.k # key)]

\* A field of an object literal
prop_value(tree, key) == IF Map_has(tree.f, key) THEN Map_get(tree.f, key) ELSE Undefined

\* ToBoolean
truthy(v) ==
    IF v.t \in {"ref", "obj", "arr"} THEN TRUE
    ELSE IF v.t = "bool" THEN v.b
    ELSE IF v.t = "str" THEN v.s # <<>>
    ELSE IF v.t = "num" THEN ~isNaN(v.n) /\ v.n # Fin(FALSE, 0, 0)
    ELSE FALSE

sOptions == <<111, 112, 116, 105, 111, 110, 115>>
sName == <<110, 97, 109, 101>>
sPlatform == <<112, 108, 97, 116, 102, 111, 114, 109>>
sRunnable == <<114, 117, 110, 110, 97, 98, 108, 101>>

---------------------------------------------------------------------------
(* Merging (merge.ts:1-101).                                                *)

isPlainObject(h, value) == value.t = "ref" /\ h[value.r].kind = "object"

RECURSIVE deepMerge(_, _, _)
RECURSIVE deepMerge_entries(_, _, _, _)

\* result[key] = deepMerge(targetValue, sourceValue), m being what the
\* nested call returned
deepMerge_nested(m, r, key) == HeapRef(prop_set(m.h, r, key, Ref(m.r)), r)

\* The test of merge.ts:25-29.
merges_deep(h, targetValue, sourceValue, key) ==
    isPlainObject(h, targetValue) /\ isPlainObject(h, sourceValue) /\ key # sOptions

deepMerge_entry(h, r, key, sourceValue) ==
    IF merges_deep(h, prop_get(h, r, key), sourceValue, key)
    THEN deepMerge_nested(deepMerge(h, prop_get(h, r, key).r, sourceValue.r), r, key)
    ELSE HeapRef(prop_set(h, r, key, sourceValue), r)

deepMerge_entries(h, r, entries, i) ==
    IF i > Len(entries) THEN HeapRef(h, r)
    ELSE deepMerge_entries(deepMerge_entry(h, r, entries[i].k, entries[i].v).h, r, entries, i + 1)

deepMerge_into(result, entries) == deepMerge_entries(result.h, result.r, entries, 1)

deepMerge(h, target, source) ==
    deepMerge_into(alloc(h, ObjectCell(h[target].f)), h[source].f)

\* Object.assign(target, source)
RECURSIVE Object_assign(_, _, _, _)
Object_assign(h, r, entries, i) ==
    IF i > Len(entries) THEN h
    ELSE Object_assign(prop_set(h, r, entries[i].k, entries[i].v), r, entries, i + 1)

\* Object.assign keeping the target's own value where it has the key.
assign_missing_only(h, merged, opts) ==
    Object_assign(h, merged, SelectSeq(h[opts].f, LAMBDA e : ~Map_has(h[merged].f, e.k)), 1)

\* The loop body of mergeOptions (merge.ts:96-98).
assign_options(h, merged, opts) == Object_assign(h, merged, h[opts].f, 1)

RECURSIVE mergeOptions_loop(_, _, _, _)
mergeOptions_loop(h, merged, options, i) ==
    IF i > Len(options) THEN HeapRef(h, merged)
    ELSE mergeOptions_loop(assign_options(h, merged, options[i]), merged, options, i + 1)

mergeOptions_into(merged, options) == mergeOptions_loop(merged.h, merged.r, options, 1)

\* mergeOptions(...options), options being references
mergeOptions(h, options) ==
    IF Len(options) = 0 THEN alloc(h, ObjectCell(<<>>))
    ELSE IF Len(options) = 1 THEN alloc(h, ObjectCell(h[options[1]].f))
    ELSE mergeOptions_into(alloc(h, ObjectCell(<<>>)), options)

\* The same object instead of a copy of it.
options_shared(h, options) == [h |-> h, v |-> options]

\* presets[0].options ? { ...presets[0].options } : undefined
options_copy(h, options) ==
    IF truthy(options)
    THEN [h |-> Append(h, ObjectCell(h[options.r].f)), v |-> Ref(Len(h) + 1)]
    ELSE [h |-> h, v |-> Undefined]

with_options(o, r) == HeapRef(prop_set(o.h, r, sOptions, o.v), r)

\* { ...preset, options: preset.options ? { ...preset.options } : undefined }
preset_copy(h, preset) ==
    with_options(options_copy(Append(h, ObjectCell(h[preset].f)), prop_get(h, preset, sOptions)),
                 Len(h) + 1)

\* const currentWithoutOptions = { ...current }; delete currentWithoutOptions.options
without_options(h, current) ==
    HeapRef(prop_delete(Append(h, ObjectCell(h[current].f)), Len(h) + 1, sOptions), Len(h) + 1)

\* x || {}
or_empty(h, x) == IF truthy(x) THEN HeapRef(h, x.r) ELSE alloc(h, ObjectCell(<<>>))

\* mergeOptions(merged.options || {}, current.options || {}), a being the
\* first operand evaluated
merged_options(a, current) ==
    LET b == or_empty(a.h, prop_get(a.h, current, sOptions))
    IN mergeOptions(b.h, <<a.r, b.r>>)

\* merged.options = mergeOptions(...)
step_options(m, current) ==
    LET o == merged_options(or_empty(m.h, prop_get(m.h, m.r, sOptions)), current)
    IN HeapRef(prop_set(o.h, m.r, sOptions, Ref(o.r)), m.r)

\* merged = deepMerge(merged, currentWithoutOptions)
step_fields(cwo, merged) == deepMerge(cwo.h, merged, cwo.r)

\* One iteration of the loop of mergePresets (merge.ts:63-80).
merge_step(h, merged, current) ==
    step_options(step_fields(without_options(h, current), merged), current)

RECURSIVE mergePresets_loop(_, _, _)
mergePresets_loop(m, presets, i) ==
    IF i > Len(presets) THEN m
    ELSE mergePresets_loop(merge_step(m.h, m.r, presets[i]), presets, i + 1)

Returned(h, v) == [h |-> h, threw |-> FALSE, v |-> v]
Threw(h) == [h |-> h, threw |-> TRUE, v |-> Undefined]

returned_ref(m) == Returned(m.h, Ref(m.r))

\* mergePresets(...presets), presets being references
mergePresets(h, presets) ==
    IF Len(presets) = 0 THEN Threw(h)
    ELSE IF Len(presets) = 1 THEN returned_ref(preset_copy(h, presets[1]))
    ELSE returned_ref(mergePresets_loop(preset_copy(h, presets[1]), presets, 2))

---------------------------------------------------------------------------
(* SpecMerge: presets written as literals, one call of mergePresets or      *)
(* mergeOptions on them, then an assignment to the returned object.         *)

RECURSIVE Sum(_)
Sum(ns) == IF Len(ns) = 0 THEN 0 ELSE ns[1] + Sum(Tail(ns))

\* The number of objects and arrays an object or array literal allocates.
RECURSIVE tree_size(_)
tree_size(tree) ==
    IF tree.t = "obj" THEN 1 + Sum([i \in 1..Len(tree.f) |-> tree_size(tree.f[i].v)])
    ELSE IF tree.t = "arr" THEN 1
    ELSE 0

\* The cells the trees before the i-th allocate.
size_before(trees, i) == Sum([j \in 1..(i - 1) |-> tree_size(trees[j])])

\* What a literal evaluates to on a heap of base cells: a reference to its
\* own cell, which comes after the cells of its parts.
tree_value(tree, base) ==
    IF tree.t \in {"obj", "arr"} THEN Ref(base + tree_size(tree)) ELSE tree

entry_base(f, i, base) == base + Sum([j \in 1..(i - 1) |-> tree_size(f[j].v)])

\* The cells a literal allocates on a heap of base cells, innermost first.
RECURSIVE tree_cells(_, _)
tree_cells(tree, base) ==
    IF tree.t = "obj"
    THEN Flatten([i \in 1..Len(tree.f) |-> tree_cells(tree.f[i].v, entry_base(tree.f, i, base))])
         \o <<ObjectCell([i \in 1..Len(tree.f) |->
                 Entry(tree.f[i].k, tree_value(tree.f[i].v, entry_base(tree.f, i, base)))])>>
    ELSE IF tree.t = "arr" THEN <<ArrayCell(tree.items)>>
    ELSE <<>>

\* The heap and the references after the literals trees, in order.
store_all(trees) ==
    [h |-> Flatten([i \in 1..Len(trees) |-> tree_cells(trees[i], size_before(trees, i))]),
     refs |-> [i \in 1..Len(trees) |-> size_before(trees, i) + tree_size(trees[i])]]

\* The value a reference stands for, as a literal again.
RECURSIVE deref(_, _)
deref(h, v) ==
    IF v.t # "ref" THEN v
    ELSE IF h[v.r].kind = "array" THEN Arr(h[v.r].items)
    ELSE Obj([i \in 1..Len(h[v.r].f) |-> Entry(h[v.r].f[i].k, deref(h, h[v.r].f[i].v))])

MaxPresets == 3

sCustom == <<99, 117, 115, 116, 111, 109>>
One == Fin(FALSE, 1, 0)
Two == Fin(FALSE, 2, 0)

\* Property names a b c n p q x y are <<97>> <<98>> <<99>> <<110>> <<112>> <<113>> <<120>> <<121>>.
PresetShapes ==
    { \* {name: "A", custom: {x: 1, n: {p: 1}}, options: {a: 1, b: {x: 1}}}
      Obj(<<Entry(sName, Str(<<65>>)),
            Entry(sCustom, Obj(<<Entry(<<120>>, Num(One)),
                                 Entry(<<110>>, Obj(<<Entry(<<112>>, Num(One))>>))>>)),
            Entry(sOptions, Obj(<<Entry(<<97>>, Num(One)),
                                  Entry(<<98>>, Obj(<<Entry(<<120>>, Num(One))>>))>>))>>),
      \* {name: "B", custom: {y: 2, n: {q: 2}}, options: {b: {y: 2}, c: 2}}
      Obj(<<Entry(sName, Str(<<66>>)),
            Entry(sCustom, Obj(<<Entry(<<121>>, Num(Two)),
                                 Entry(<<110>>, Obj(<<Entry(<<113>>, Num(Two))>>))>>)),
            Entry(sOptions, Obj(<<Entry(<<98>>, Obj(<<Entry(<<121>>, Num(Two))>>)),
                                  Entry(<<99>>, Num(Two))>>))>>),
      \* {name: "A"}
      Obj(<<Entry(sName, Str(<<65>>))>>),
      \* {custom: "s", options: {}}
      Obj(<<Entry(sCustom, Str(<<115>>)), Entry(sOptions, Obj(<<>>))>>),
      \* {custom: [1], options: undefined}
      Obj(<<Entry(sCustom, Arr(<<Num(One)>>)), Entry(sOptions, Undefined)>>),
      \* {custom: {options: {a: 1}, x: 1}}
      Obj(<<Entry(sCustom, Obj(<<Entry(sOptions, Obj(<<Entry(<<97>>, Num(One))>>)),
                                 Entry(<<120>>, Num(One))>>))>>),
      \* {custom: {options: {b: 2}}, options: {a: 2}}
      Obj(<<Entry(sCustom, Obj(<<Entry(sOptions, Obj(<<Entry(<<98>>, Num(Two))>>))>>)),
            Entry(sOptions, Obj(<<Entry(<<97>>, Num(Two))>>))>>),
      \* {name: "B", custom: {n: "s"}, options: {c: undefined}}
      Obj(<<Entry(sName, Str(<<66>>)),
            Entry(sCustom, Obj(<<Entry(<<110>>, Str(<<115>>))>>)),
            Entry(sOptions, Obj(<<Entry(<<99>>, Undefined)>>))>>) }

MergeInputs == BoundedSeq(PresetShapes, MaxPresets)

literals_stored(presets, s) ==
    /\ input = [fam |-> "merge", presets |-> presets, h |-> s.h, refs |-> s.refs]
    /\ heap = s.h

\* The heap after the literals of the arguments, and the arguments.
Literals == [h |-> input.h, refs |-> input.refs]

InitMerge ==
    /\ \E presets \in MergeInputs : literals_stored(presets, store_all(presets))
    /\ call = NoCall
    /\ values = NewMap
    /\ lastError = NoError
    /\ content = <<>>
    /\ stream = NewStream
    /\ pvalues = NewMap
    /\ currentSection = <<>>
    /\ outcome = "idle"
    /\ error = NoError
    /\ stmtStart = 0

\* The options objects of the arguments that have one.
RECURSIVE options_of(_, _, _)
options_of(h, refs, i) ==
    IF i > Len(refs) THEN <<>>
    ELSE (IF truthy(prop_get(h, refs[i], sOptions))
          THEN <<prop_get(h, refs[i], sOptions).r>>
          ELSE <<>>) \o options_of(h, refs, i + 1)

OptionsOf(refs) == options_of(heap, refs, 1)

called(op, args, m) ==
    /\ heap' = m.h
    /\ call' = [op |-> op, args |-> args, threw |-> m.threw, v |-> m.v, writes |-> 0]

CallMergePresets ==
    /\ call = NoCall
    /\ called("mergePresets", input.refs, mergePresets(heap, input.refs))
    /\ UNCHANGED <<storeVars, parseVars>>

CallMergeOptions ==
    /\ call = NoCall
    /\ called("mergeOptions", OptionsOf(input.refs),
              returned_ref(mergeOptions(heap, OptionsOf(input.refs))))
    /\ UNCHANGED <<storeVars, parseVars>>

sZ == <<90>>
AssignedKeys == {sName, <<97>>, sOptions}

\* result[key] = "Z"
AssignField ==
    /\ call.op = "mergePresets"
    /\ ~call.threw
    /\ call.writes = 0
    /\ \E key \in AssignedKeys : heap' = prop_set(heap, call.v.r, key, Str(sZ))
    /\ call' = [call EXCEPT !.writes = 1]
    /\ UNCHANGED <<storeVars, parseVars>>

\* result.options[key] = "Z"
AssignOption ==
    /\ call.op = "mergePresets"
    /\ ~call.threw
    /\ call.writes = 0
    /\ prop_get(heap, call.v.r, sOptions).t = "ref"
    /\ \E key \in AssignedKeys :
          heap' = prop_set(heap, prop_get(heap, call.v.r, sOptions).r, key, Str(sZ))
    /\ call' = [call EXCEPT !.writes = 1]
    /\ UNCHANGED <<storeVars, parseVars>>

NextMerge == CallMergePresets \/ CallMergeOptions \/ AssignField \/ AssignOption

SpecMerge == InitMerge /\ [][NextMerge]_vars

---------------------------------------------------------------------------
(* Preset operations (merge.ts:104-182).  An ExportPresetsFile is an object *)
(* whose field presets refers to an array of references to presets.  An     *)
(* index is an integer or undefined.                                        *)

sPresets == <<112, 114, 101, 115, 101, 116, 115>>

Index(i) == [t |-> "int", i |-> i]

\* presets.presets
presets_ref(h, file) == prop_get(h, file, sPresets).r
presets_of(h, file) == h[presets_ref(h, file)].items

\* String.prototype.trim and toUpperCase, on the characters below 128
WhiteSpace == {chTab, chLF, 11, 12, chCR, chSpace}

kept(s) == {i \in 1..Len(s) : s[i] \notin WhiteSpace}

trim(s) ==
    IF kept(s) = {} THEN <<>>
    ELSE SubSeq(s, CHOOSE i \in kept(s) : \A j \in kept(s) : i <= j,
                   CHOOSE i \in kept(s) : \A j \in kept(s) : i >= j)

toUpperCase(s) ==
    [i \in 1..Len(s) |->
        IF s[i] >= chLowerA /\ s[i] <= chLowerZ THEN s[i] - chLowerA + chUpperA ELSE s[i]]

\* String(x || ""), x being a string or undefined
String_or_empty(x) == IF truthy(x) THEN x.s ELSE <<>>

\* The comparison of merge.ts:134-136 and 142-144 without the trim.
same_text_untrimmed(field, searched) ==
    toUpperCase(String_or_empty(field)) = toUpperCase(searched.s)

same_text(field, searched) ==
    toUpperCase(trim(String_or_empty(field))) = toUpperCase(trim(searched.s))

getPreset(h, presets, index) ==
    IF index < 0 \/ index >= Len(presets_of(h, presets)) THEN Undefined
    ELSE presets_of(h, presets)[index + 1]

\* The body of the loop of findPreset: does it return this preset?
preset_found(h, preset, criteria) ==
    \/ truthy(criteria.platform) /\ same_text(prop_get(h, preset, sPlatform), criteria.platform)
    \/ truthy(criteria.name) /\ same_text(prop_get(h, preset, sName), criteria.name)

RECURSIVE findPreset_loop(_, _, _, _)
findPreset_loop(h, list, criteria, i) ==
    IF i > Len(list) THEN Undefined
    ELSE IF preset_found(h, list[i].r, criteria) THEN list[i]
    ELSE findPreset_loop(h, list, criteria, i + 1)

findPreset(h, presets, criteria) ==
    IF criteria.index # Undefined THEN getPreset(h, presets, criteria.index.i)
    ELSE findPreset_loop(h, presets_of(h, presets), criteria, 1)

\* const newPresets = presets.presets, the same array instead of a copy
array_shared(h, file) == HeapRef(h, presets_ref(h, file))

\* const newPresets = [...presets.presets]
array_copy(h, file) == alloc(h, ArrayCell(presets_of(h, file)))

\* { presets: newPresets }
file_of(h, newPresets) == alloc(h, ObjectCell(<<Entry(sPresets, Ref(newPresets))>>))

index_in_range(h, array, index) ==
    index # Undefined /\ index.i >= 0 /\ index.i < Len(h[array].items)

\* newPresets[index] = preset, newPresets.push(preset), newPresets.splice(index, 1)
array_put(h, array, i, preset) == [h EXCEPT ![array].items[i + 1] = Ref(preset)]
array_push(h, array, preset) == [h EXCEPT ![array].items = Append(@, Ref(preset))]
array_splice1(h, array, i) ==
    [h EXCEPT ![array].items = SubSeq(@, 1, i) \o SubSeq(@, i + 2, Len(@))]

setPreset_into(a, preset, index) ==
    IF index_in_range(a.h, a.r, index)
    THEN file_of(array_put(a.h, a.r, index.i, preset), a.r)
    ELSE file_of(array_push(a.h, a.r, preset), a.r)

setPreset(h, presets, preset, index) == setPreset_into(array_copy(h, presets), preset, index)

removePreset_from(a, index) == file_of(array_splice1(a.h, a.r, index), a.r)

removePreset(h, presets, index) ==
    IF index < 0 \/ index >= Len(presets_of(h, presets)) THEN HeapRef(h, presets)
    ELSE removePreset_from(array_copy(h, presets), index)

---------------------------------------------------------------------------
(* SpecFind: a file of presets taken from a pool, and one lookup in it by   *)
(* getPreset or findPreset.                                                 *)

preset_cell(name, platform) ==
    ObjectCell(<<Entry(sName, Str(name)), Entry(sPlatform, Str(platform)),
                 Entry(sRunnable, Bool(TRUE))>>)

\* {name: "a", platform: "B"}, {name: " A", platform: "b "},
\* {name: "b", platform: ""}, {name: "", platform: "a"}
PoolCells ==
    << preset_cell(<<97>>, <<66>>), preset_cell(<<32, 65>>, <<98, 32>>),
       preset_cell(<<98>>, <<>>), preset_cell(<<>>, <<97>>) >>

Pool == 1..Len(PoolCells)

MaxFile == 3

\* The heap after the literal { presets: [...] } over presets of the pool.
file_literal(list) ==
    PoolCells \o <<ArrayCell([i \in 1..Len(list) |-> Ref(list[i])]),
                   ObjectCell(<<Entry(sPresets, Ref(Len(PoolCells) + 1))>>)>>

InitFile(maxLen) ==
    /\ \E list \in BoundedSeq(Pool, maxLen) :
          /\ input = [fam |-> "file", presets |-> list, file |-> Len(PoolCells) + 2]
          /\ heap = file_literal(list)
    /\ call = NoCall
    /\ values = NewMap
    /\ lastError = NoError
    /\ content = <<>>
    /\ stream = NewStream
    /\ pvalues = NewMap
    /\ currentSection = <<>>
    /\ outcome = "idle"
    /\ error = NoError
    /\ stmtStart = 0

InitFind == InitFile(MaxFile)

FindIndexes == {Undefined} \cup {Index(i) : i \in -1..MaxFile}
\* undefined, "", "b", " B ", "x", " "
FindPlatforms ==
    {Undefined, Str(<<>>), Str(<<98>>), Str(<<32, 66, 32>>), Str(<<120>>), Str(<<32>>)}
\* undefined, "", "A", "b", "x"
FindNames == {Undefined, Str(<<>>), Str(<<65>>), Str(<<98>>), Str(<<120>>)}

Criteria == [index : FindIndexes, platform : FindPlatforms, name : FindNames]

CallGetPreset ==
    /\ call = NoCall
    /\ \E index \in -1..MaxFile :
          call' = [op |-> "getPreset", file |-> input.file, index |-> index,
                   v |-> getPreset(heap, input.file, index)]
    /\ UNCHANGED <<heap, storeVars, parseVars>>

CallFindPreset ==
    /\ call = NoCall
    /\ \E criteria \in Criteria :
          call' = [op |-> "findPreset", file |-> input.file, criteria |-> criteria,
                   v |-> findPreset(heap, input.file, criteria)]
    /\ UNCHANGED <<heap, storeVars, parseVars>>

NextFind == CallGetPreset \/ CallFindPreset

SpecFind == InitFind /\ [][NextFind]_vars

---------------------------------------------------------------------------
(* SpecList: a file of presets taken from the pool, then calls of setPreset *)
(* and removePreset on it and on the files they return.                     *)

MaxList == 2
MaxCells == 10

InitList == InitFile(MaxList)

\* The files there are: the first one and those returned so far.
Files == {r \in 1..Len(heap) : heap[r].kind = "object" /\ Map_has(heap[r].f, sPresets)}

ListIndexes == {Index(i) : i \in -1..(MaxList + 1)}

list_called(op, file, preset, index, m) ==
    /\ heap' = m.h
    /\ call' = [op |-> op, file |-> file, preset |-> preset, index |-> index, v |-> Ref(m.r)]

CallSetPreset ==
    /\ Len(heap) + 2 <= MaxCells
    /\ \E file \in Files, preset \in Pool, index \in ListIndexes \cup {Undefined} :
          list_called("setPreset", file, preset, index, setPreset(heap, file, preset, index))
    /\ UNCHANGED <<storeVars, parseVars>>

CallRemovePreset ==
    /\ Len(heap) + 2 <= MaxCells
    /\ \E file \in Files, index \in ListIndexes :
          list_called("removePreset", file, 0, index, removePreset(heap, file, index.i))
    /\ UNCHANGED <<storeVars, parseVars>>

NextList == CallSetPreset \/ CallRemovePreset

SpecList == InitList /\ [][NextList]_vars

---------------------------------------------------------------------------
(* The export presets file (part_003, part_004).  Presets and files are     *)
(* written as literals here: the functions build them and share nothing.    *)

sPresetDot == <<112, 114, 101, 115, 101, 116, 46>>
sDotOptions == <<46, 111, 112, 116, 105, 111, 110, 115>>

\* String(i), i a natural number
RECURSIVE decimal(_)
decimal(i) == IF i < 10 THEN <<chZero + i>> ELSE decimal(i \div 10) \o <<chZero + (i % 10)>>

\* Object.assign(target, source) on the entries of two objects
RECURSIVE assign_entries(_, _, _)
assign_entries(target, source, i) ==
    IF i > Len(source) THEN target
    ELSE assign_entries(Map_set(target, source[i].k, source[i].v), source, i + 1)

not_options(f) == SelectSeq(f, LAMBDA e : e.k # sOptions)

\* configFile.set_value(section, key, value) for each entry
RECURSIVE set_values(_, _, _, _)
set_values(vals, section, entries, i) ==
    IF i > Len(entries) THEN vals
    ELSE set_values(store_set(vals, section, entries[i].k, entries[i].v), section, entries, i + 1)

\* The body of the loop of serializeExportPresets (part_003:12-29), i being
\* the zero-based index.
write_options(vals, preset, i) ==
    IF truthy(prop_value(preset, sOptions))
    THEN set_values(vals, sPresetDot \o decimal(i) \o sDotOptions,
                    prop_value(preset, sOptions).f, 1)
    ELSE vals

write_preset(vals, preset, i) ==
    write_options(set_values(vals, sPresetDot \o decimal(i), not_options(preset.f), 1), preset, i)

RECURSIVE write_presets(_, _, _)
write_presets(vals, list, i) ==
    IF i >= Len(list) THEN vals
    ELSE write_presets(write_preset(vals, list[i + 1], i), list, i + 1)

serializeExportPresets(presets) ==
    serialize_config(write_presets(NewMap, prop_value(presets, sPresets).items, 0))

\* s.startsWith(prefix), s.includes(part), s.split(".")[1]
startsWith(s, prefix) == Len(s) >= Len(prefix) /\ SubSeq(s, 1, Len(prefix)) = prefix
includes(s, part) ==
    \E i \in 0..(Len(s) - Len(part)) : SubSeq(s, i + 1, i + Len(part)) = part

dots(s) == {i \in 1..Len(s) : s[i] = chDot} \cup {Len(s) + 1}
first_dot(s) == CHOOSE i \in dots(s) : \A j \in dots(s) : i <= j
dot_after(s, d) == CHOOSE i \in dots(s) : i > d /\ \A j \in dots(s) : j > d => i <= j
split_1(s) ==
    IF first_dot(s) > Len(s) THEN Undefined
    ELSE Str(SubSeq(s, first_dot(s) + 1, dot_after(s, first_dot(s)) - 1))

\* parseInt(str, 10): white space, a sign, then digits as far as they go
isDigit(c) == c >= chZero /\ c <= chNine

RECURSIVE digits_value(_, _, _)
digits_value(s, i, n) ==
    IF i > Len(s) \/ ~isDigit(s[i]) THEN n
    ELSE digits_value(s, i + 1, 10 * n + (s[i] - chZero))

NotANumber == [nan |-> TRUE]
Integer(n) == [nan |-> FALSE, n |-> n]

parseInt_unsigned(s, i) ==
    IF i > Len(s) \/ ~isDigit(s[i]) THEN NotANumber ELSE Integer(digits_value(s, i, 0))

negated(x) == IF x.nan THEN x ELSE Integer(0 - x.n)

parseInt_signed(s) ==
    IF Len(s) > 0 /\ s[1] = chMinus THEN negated(parseInt_unsigned(s, 2))
    ELSE IF Len(s) > 0 /\ s[1] = chPlus THEN parseInt_unsigned(s, 2)
    ELSE parseInt_unsigned(s, 1)

trimStart(s) ==
    IF kept(s) = {} THEN <<>>
    ELSE SubSeq(s, CHOOSE i \in kept(s) : \A j \in kept(s) : i <= j, Len(s))

parseInt(s) == parseInt_signed(trimStart(s))

\* parseInt(a.split(".")[1] || "0", 10)
section_number(a) == parseInt(IF truthy(split_1(a)) THEN split_1(a).s ELSE <<chZero>>)

\* The filter of part_004:21.
is_preset_section(s) == startsWith(s, sPresetDot) /\ ~includes(s, sDotOptions)

preset_sections(sections) == SelectSeq(sections, is_preset_section)

\* The place of the i-th section after a stable sort by number.
sorted_place(sections, i) ==
    Cardinality({j \in 1..Len(sections) :
        \/ section_number(sections[j]).n < section_number(sections[i]).n
        \/ section_number(sections[j]).n = section_number(sections[i]).n /\ j <= i})

stable_sort(sections) ==
    [p \in 1..Len(sections) |->
        sections[CHOOSE i \in 1..Len(sections) : sorted_place(sections, i) = p]]

orders_of(sections) ==
    {[p \in 1..Len(sections) |-> sections[perm[p]]] : perm \in Permutations(1..Len(sections))}

\* What sections.sort(...) may leave: the sections in ascending order of
\* their numbers, sections of equal number in their order; any order when
\* the number of a section is NaN, the comparison function then being
\* inconsistent and the order implementation-defined.
sort_outcomes(sections) ==
    IF \E i \in 1..Len(sections) : section_number(sections[i]).nan
    THEN orders_of(sections)
    ELSE {stable_sort(sections)}

\* { name: "", platform: "", runnable: false }
default_preset ==
    <<Entry(sName, Str(<<>>)), Entry(sPlatform, Str(<<>>)), Entry(sRunnable, Bool(FALSE))>>

\* preset.options = options only when the options section has a key.
read_options_nonempty(vals, f, optionsSection) ==
    IF Map_has(vals, optionsSection) /\ Len(Map_get(vals, optionsSection)) > 0
    THEN Map_set(f, sOptions, Obj(assign_entries(<<>>, Map_get(vals, optionsSection), 1)))
    ELSE f

\* preset.options = options when the options section exists (part_004:47-55)
read_options(vals, f, optionsSection) ==
    IF Map_has(vals, optionsSection)
    THEN Map_set(f, sOptions, Obj(assign_entries(<<>>, Map_get(vals, optionsSection), 1)))
    ELSE f

\* The body of the loop of parseExportPresets (part_004:29-57).
read_preset(vals, presetSection) ==
    Obj(read_options(vals,
                     assign_entries(default_preset, not_options(Map_get(vals, presetSection)), 1),
                     presetSection \o sDotOptions))

presets_file(vals, sorted) ==
    Obj(<<Entry(sPresets, Arr([i \in 1..Len(sorted) |-> read_preset(vals, sorted[i])]))>>)

\* The file returned, with the value of presetSections it was built from.
returns(vals, sorted) == [threw |-> FALSE, v |-> presets_file(vals, sorted), sections |-> sorted]
throws(e) == [threw |-> TRUE, v |-> e, sections |-> <<>>]

\* What parseExportPresets(content) may do, r being what the parse returned:
\* throw its error, or return the file, for an order the sort may leave.
presets_parsed(r) ==
    IF r.error # NoError THEN {throws(r.error)}
    ELSE {returns(r.values, sorted) :
             sorted \in sort_outcomes(preset_sections(Map_keys(r.values)))}

parseExportPresets(text) == presets_parsed(parse_config(text))

---------------------------------------------------------------------------
(* SpecExport: a text handed to parseExportPresets, or a file handed to     *)
(* serializeExportPresets whose text is handed to parseExportPresets.       *)

MaxSections == 3
MaxExported == 2

ExportFragments ==
    {
      \* [preset.0] LF name="a" LF k=1 LF 
      <<91, 112, 114, 101, 115, 101, 116, 46, 48, 93, 10, 110, 97, 109, 101, 61, 34, 97, 34, 10, 107, 61, 49, 10>>,
      \* [preset.0.options] LF x=1 LF 
      <<91, 112, 114, 101, 115, 101, 116, 46, 48, 46, 111, 112, 116, 105, 111, 110, 115, 93, 10, 120, 61, 49, 10>>,
      \* [preset.2] LF name="b" LF options=5 LF 
      <<91, 112, 114, 101, 115, 101, 116, 46, 50, 93, 10, 110, 97, 109, 101, 61, 34, 98, 34, 10, 111, 112, 116, 105, 111, 110, 115, 61, 53, 10>>,
      \* [preset.10] LF runnable=true LF 
      <<91, 112, 114, 101, 115, 101, 116, 46, 49, 48, 93, 10, 114, 117, 110, 110, 97, 98, 108, 101, 61, 116, 114, 117, 101, 10>>,
      \* [preset.2.options] LF 
      <<91, 112, 114, 101, 115, 101, 116, 46, 50, 46, 111, 112, 116, 105, 111, 110, 115, 93, 10>>,
      \* [preset.x] LF name="c" LF 
      <<91, 112, 114, 101, 115, 101, 116, 46, 120, 93, 10, 110, 97, 109, 101, 61, 34, 99, 34, 10>>,
      \* [preset.10.extra] LF k=3 LF 
      <<91, 112, 114, 101, 115, 101, 116, 46, 49, 48, 46, 101, 120, 116, 114, 97, 93, 10, 107, 61, 51, 10>>,
      \* [other] LF k=1 LF 
      <<91, 111, 116, 104, 101, 114, 93, 10, 107, 61, 49, 10>>,
      \* [preset.0
      <<91, 112, 114, 101, 115, 101, 116, 46, 48>> }

ExportTexts == {Flatten(frags) : frags \in BoundedSeq(ExportFragments, MaxSections)}

OneAndHalf == Fin(FALSE, 15, -1)
MinusThree == Fin(TRUE, 3, 0)

ExportedPresets ==
    { \* {name: "a", platform: "b", runnable: true}
      Obj(<<Entry(sName, Str(<<97>>)), Entry(sPlatform, Str(<<98>>)), Entry(sRunnable, Bool(TRUE))>>),
      \* {name: "a", platform: "", runnable: false, k: 2, options: {}}
      Obj(<<Entry(sName, Str(<<97>>)), Entry(sPlatform, Str(<<>>)), Entry(sRunnable, Bool(FALSE)),
            Entry(<<107>>, Num(Two)), Entry(sOptions, Obj(<<>>))>>),
      \* {name: "c d", platform: "b", runnable: true, path: "x",
      \*  options: {"x/y": 1.5, z: "s", w: false}}
      Obj(<<Entry(sName, Str(<<99, 32, 100>>)), Entry(sPlatform, Str(<<98>>)),
            Entry(sRunnable, Bool(TRUE)), Entry(<<112, 97, 116, 104>>, Str(<<120>>)),
            Entry(sOptions, Obj(<<Entry(<<120, 47, 121>>, Num(OneAndHalf)),
                                  Entry(<<122>>, Str(<<115>>)),
                                  Entry(<<119>>, Bool(FALSE))>>))>>),
      \* {name: "e", platform: "b", runnable: false, options: {n: -3}}
      Obj(<<Entry(sName, Str(<<101>>)), Entry(sPlatform, Str(<<98>>)), Entry(sRunnable, Bool(FALSE)),
            Entry(sOptions, Obj(<<Entry(<<110>>, Num(MinusThree))>>))>>) }

ExportFiles ==
    {Obj(<<Entry(sPresets, Arr(list))>>) : list \in BoundedSeq(ExportedPresets, MaxExported)}

InitExport ==
    /\ \/ \E text \in ExportTexts : input = [fam |-> "text"] /\ content = text
       \/ \E presets \in ExportFiles : input = [fam |-> "presets", presets |-> presets] /\ content = <<>>
    /\ call = NoCall
    /\ heap = <<>>
    /\ values = NewMap
    /\ lastError = NoError
    /\ stream = NewStream
    /\ pvalues = NewMap
    /\ currentSection = <<>>
    /\ outcome = "idle"
    /\ error = NoError
    /\ stmtStart = 0

exportVars == <<heap, values, lastError, stream, pvalues, currentSection, outcome, error, stmtStart, input>>

CallSerializeExportPresets ==
    /\ input.fam = "presets"
    /\ call = NoCall
    /\ content' = serializeExportPresets(input.presets)
    /\ call' = [op |-> "serializeExportPresets"]
    /\ UNCHANGED exportVars

CallParseExportPresets ==
    /\ \/ input.fam = "text" /\ call = NoCall
       \/ call.op = "serializeExportPresets"
    /\ \E m \in parseExportPresets(content) :
          call' = [op |-> "parseExportPresets", threw |-> m.threw, v |-> m.v, sections |-> m.sections]
    /\ UNCHANGED <<content, exportVars>>

NextExport == CallSerializeExportPresets \/ CallParseExportPresets

SpecExport == InitExport /\ [][NextExport]_vars

---------------------------------------------------------------------------
(* SpecUsage: one ConfigFile under set_value, clear and get_value, and      *)
(* mergePresets called with no preset, any number of times, or once with    *)
(* presets of the pool.                                                     *)

value_returned(v) == [threw |-> FALSE, v |-> v]
usage_error == [threw |-> TRUE, v |-> Undefined]

\* get_value returning the default whenever one is supplied.
get_value_default_first(vals, section, key, defaultValue) ==
    IF defaultValue # Undefined THEN value_returned(defaultValue)
    ELSE IF Map_has(vals, section) /\ Map_has(Map_get(vals, section), key)
    THEN value_returned(Map_get(Map_get(vals, section), key))
    ELSE usage_error

\* ConfigFile.get_value (config-file.ts:34-53): what the call returns, or
\* that it threw.
get_value_result(vals, section, key, defaultValue) ==
    IF ~Map_has(vals, section)
    THEN (IF defaultValue # Undefined THEN value_returned(defaultValue) ELSE usage_error)
    ELSE IF ~Map_has(Map_get(vals, section), key)
    THEN (IF defaultValue # Undefined THEN value_returned(defaultValue) ELSE usage_error)
    ELSE value_returned(Map_get(Map_get(vals, section), key))

get_value(section, key, defaultValue) ==
    /\ call' = [op |-> "get_value", section |-> section, key |-> key,
                defaultValue |-> defaultValue,
                ret |-> get_value_result(values, section, key, defaultValue)]
    /\ UNCHANGED <<heap, storeVars, parseVars>>

\* Values stored and defaults supplied; an omitted default is undefined.
LookupValues == {Num(Seven), Null, Undefined}
LookupDefaults == {Undefined, Null, Num(Half)}

MaxMerged == 1

InitUsage ==
    /\ values = NewMap
    /\ lastError = NoError
    /\ heap = PoolCells
    /\ call = NoCall
    /\ ParseIdle

CallMergePresetsOf ==
    /\ heap = PoolCells
    /\ \E presets \in BoundedSeq(Pool, MaxMerged) :
          called("mergePresets", presets, mergePresets(heap, presets))
    /\ UNCHANGED <<storeVars, parseVars>>

NextUsage ==
    \/ \E section \in StoreSections, value \in LookupValues : set_value(section, kKey, value)
    \/ clear
    \/ \E section \in StoreSections, key \in StoreKeys, defaultValue \in LookupDefaults :
          get_value(section, key, defaultValue)
    \/ CallMergePresetsOf

SpecUsage == InitUsage /\ [][NextUsage]_vars

---------------------------------------------------------------------------
(* SpecEncode: a fresh ConfigFile gets one value under a drawn section name *)
(* or one drawn container value, is saved, and the saved text is parsed     *)
(* back.                                                                    *)

MaxNameLen == 3

\* a b ]
SectionAlphabet == {97, 98, chRBracket}

SectionInputs ==
    {[fam |-> "section", section |-> n, key |-> kKey, value |-> Num(Seven)] :
        n \in BoundedSeq(SectionAlphabet, MaxNameLen) \ {<<>>}}

MaxItems == 2

sFoo == <<70, 111, 111>>
sClass == <<95, 95, 99, 108, 97, 115, 115>>
kInner == <<105>>

\* What an Array may hold here.
ElementValues == {Null, Num(Seven), Str(ka), [t |-> "arr", items |-> <<Num(Half)>>]}

\* Arrays, dictionaries (plain objects) and class objects (a plain object
\* with the class name under __class).
ArrayValues == {[t |-> "arr", items |-> it] : it \in BoundedSeq(ElementValues, MaxItems)}

DictionaryValues ==
    {Obj(<<>>),
     Obj(<<Entry(kKey, Num(Half))>>),
     Obj(<<Entry(kKey, Obj(<<Entry(kInner, Num(Seven))>>))>>)}

ClassObjectValues ==
    {Obj(<<Entry(sClass, Str(sFoo))>>),
     Obj(<<Entry(sClass, Str(sFoo)), Entry(kKey, Num(Seven))>>)}

kind_inputs(kind, vals) ==
    {[fam |-> "value", kind |-> kind, section |-> sSection, key |-> kKey, value |-> v] :
        v \in vals}

ContainerValueInputs ==
    kind_inputs("array", ArrayValues)
    \cup kind_inputs("dictionary", DictionaryValues)
    \cup kind_inputs("object", ClassObjectValues)

EncodeInputs == SectionInputs \cup ContainerValueInputs

InitEncode ==
    /\ input \in EncodeInputs
    /\ StoreIdle
    /\ content = <<>>
    /\ stream = NewStream
    /\ pvalues = NewMap
    /\ currentSection = <<>>
    /\ outcome = "idle"
    /\ error = NoError
    /\ stmtStart = 0

SpecEncode == InitEncode /\ [][NextWrite]_vars

---------------------------------------------------------------------------
(* SpecTop: one call of parse_config on a text made of whole top-level      *)
(* statements, or on one constructor call whose arguments are numbers and   *)
(* the words inf, -inf and nan; one action per iteration of the top-level   *)
(* loop.                                                                    *)

MaxStatements == 5
MaxMixed == 3

sOther == <<116>>
kOther == <<106>>

\* The statements a text is made of, each with what it says: a section
\* header, a key/value pair, tokens that are neither, or a syntax error.
Statements == <<
    \* [s] LF
    [text |-> <<91, 115, 93, 10>>, kind |-> "header", name |-> sSection],
    \* [t] LF
    [text |-> <<91, 116, 93, 10>>, kind |-> "header", name |-> sOther],
    \* k=1 LF
    [text |-> <<107, 61, 49, 10>>, kind |-> "pair", key |-> kKey, value |-> Num(Fin(FALSE, 1, 0))],
    \* k=2 LF
    [text |-> <<107, 61, 50, 10>>, kind |-> "pair", key |-> kKey, value |-> Num(Fin(FALSE, 2, 0))],
    \* j=3 LF
    [text |-> <<106, 61, 51, 10>>, kind |-> "pair", key |-> kOther, value |-> Num(Fin(FALSE, 3, 0))],
    \* true=5 LF
    [text |-> <<116, 114, 117, 101, 61, 53, 10>>, kind |-> "stray"],
    \* k=1.2.3 LF
    [text |-> <<107, 61, 49, 46, 50, 46, 51, 10>>, kind |-> "pair", key |-> kKey, value |-> Num(Fin(FALSE, 12, -1))],
    \* , ( ) LF
    [text |-> <<44, 32, 40, 32, 41, 10>>, kind |-> "stray"],
    \* ] LF
    [text |-> <<93, 10>>, kind |-> "error"],
    \* : LF
    [text |-> <<58, 10>>, kind |-> "error"] >>

\* The statements that build the document: headers and pairs.
Building == {i \in 1..Len(Statements) : Statements[i].kind \in {"header", "pair"}}

\* Up to MaxStatements building statements, or up to MaxMixed statements of
\* any kind.
StatementInputs ==
    {[fam |-> "statements", items |-> it] :
        it \in BoundedSeq(Building, MaxStatements) \cup BoundedSeq(1..Len(Statements), MaxMixed)}

\* The argument texts of a constructor call:  1  inf  -inf  nan
SentinelArgs == <<<<49>>, sInf, sNegInf, sNan>>

SentinelInputs ==
    {[fam |-> "sentinel", name |-> sColor, args |-> a] : a \in [1..4 -> 1..Len(SentinelArgs)]}
    \cup
    {[fam |-> "sentinel", name |-> sVector2, args |-> a] : a \in [1..2 -> 1..Len(SentinelArgs)]}

TopInputs == StatementInputs \cup SentinelInputs

\* k=Name(a, b, ...) LF, resp. the statements one after the other.
RenderTop(in) ==
    IF in.fam = "statements"
    THEN Flatten([i \in 1..Len(in.items) |-> Statements[in.items[i]].text])
    ELSE kKey \o <<chEqual>> \o in.name \o <<chLParen>>
         \o Flatten([i \in 1..Len(in.args) |->
                        (IF i > 1 THEN sCommaSpace ELSE <<>>) \o SentinelArgs[in.args[i]]])
         \o <<chRParen, chLF>>

InitTop ==
    /\ input \in TopInputs
    /\ content = RenderTop(input)
    /\ stream = NewStream
    /\ pvalues = NewMap
    /\ currentSection = <<>>
    /\ outcome = "running"
    /\ error = NoError
    /\ stmtStart = 0
    /\ StoreIdle

SpecTop == InitTop /\ [][NextParse]_vars

---------------------------------------------------------------------------
(* SpecStore: one ConfigFile under set_value, clear and parse, each step    *)
(* noting in call which method was called and with what.                    *)

CallValues == {Num(Seven), Bool(TRUE)}

\* ConfigFile.set_value (config-file.ts:61-66)
CallSetValue(section, key, value) ==
    /\ values' = store_set(values, section, key, value)
    /\ call' = [op |-> "set_value", section |-> section, key |-> key, value |-> value]
    /\ UNCHANGED <<lastError, parseVars, heap>>

\* ConfigFile.clear (config-file.ts:103-105)
CallClear ==
    /\ values' = NewMap
    /\ call' = [op |-> "clear"]
    /\ UNCHANGED <<lastError, parseVars, heap>>

\* ConfigFile.parse (config-file.ts:18-25); lastError is what it returns
CallParse(text) ==
    /\ parse_result(parse_config(text))
    /\ call' = [op |-> "parse", text |-> text]
    /\ UNCHANGED <<parseVars, heap>>

NextStore ==
    \/ \E section \in StoreSections, key \in StoreKeys, value \in CallValues :
          CallSetValue(section, key, value)
    \/ CallClear
    \/ \E text \in StoreTexts : CallParse(text)

SpecStore == Init /\ [][NextStore]_vars

---------------------------------------------------------------------------
(* Properties.                                                              *)

round_trips(vals, r) == r.error = NoError /\ r.values = vals

(* C1: the text serialize_config writes for a document built by set_value   *)
(* from null, booleans, numbers (NaN included), strings, Color and Vector2  *)
(* values parses back with no error and to an equal document: the same      *)
(* sections and keys in the same order, the same value under each key.      *)
C1_RoundTrip == round_trips(values, parse_config(serialize_config(values)))

same_text_again(text, r) ==
    r.error = NoError => serialize_config(r.values) = text

(* C2: where the text written for a document parses back without error,    *)
(* serializing the parsed document gives that text again, character for     *)
(* character, whatever the order in which the sections were created and     *)
(* with or without the section-less "" bucket.                              *)
C2_ReserializeIdempotent ==
    same_text_again(serialize_config(values), parse_config(serialize_config(values)))

line_count(text) == 1 + Cardinality({j \in 1..Len(text) : text[j] = chLF})

parsed_before(vals, r) == r.outcome = "ok" /\ r.values = vals

(* C3: parse_config never throws on a syntax error.  When a call has ended, *)
(* it returned either no error or a ParseError with a message and a line of *)
(* the input, and in the error case the returned document is exactly the    *)
(* document that parsing the text before the failing statement yields:      *)
(* every section opened and every pair stored before the failure, in order, *)
(* nothing from the failing statement or after it.                          *)
C3_FailurePolicy ==
    /\ outcome # "thrown"
    /\ outcome = "ok" => error = NoError
    /\ outcome = "error" =>
          /\ error.kind = "ParseError"
          /\ error.message # ""
          /\ error.line \in 1..line_count(content)
          /\ parsed_before(pvalues, parse_config(SubSeq(content, 1, stmtStart)))

\* A failed call that returns two sections parsed before the failure point.
C3_Witness ==
    /\ outcome = "error"
    /\ Len(pvalues) = 2
    /\ Len(pvalues[1].v) = 1
    /\ error.line = 3

\* Index of the first unescaped double quote at or after index i, 0 if the
\* text ends first.
RECURSIVE closing_quote(_, _, _)
closing_quote(text, i, escaped) ==
    IF i > Len(text) THEN 0
    ELSE IF escaped THEN closing_quote(text, i + 1, FALSE)
    ELSE IF text[i] = chBackslash THEN closing_quote(text, i + 1, TRUE)
    ELSE IF text[i] = chQuote THEN i
    ELSE closing_quote(text, i + 1, FALSE)

\* The double quotes after which the text ends with no quote closing them.
open_quotes(text) ==
    {i \in 1..Len(text) : text[i] = chQuote /\ closing_quote(text, i + 1, FALSE) = 0}

first_of(S) == CHOOSE i \in S : \A j \in S : i <= j

line_of(text, i) == 1 + Cardinality({j \in 1..(i - 1) : text[j] = chLF})

(* C4: when parse_config ends on a string literal that is not closed before *)
(* the end of the input, it returns (does not throw) a ParseError whose     *)
(* line is the 1-based line of the literal's opening quote, whatever stands *)
(* before the literal and however many lines the literal spans.             *)
C4_UnterminatedStringLine ==
    (outcome # "running" /\ error.message = "Unterminated string") =>
        /\ outcome = "error"
        /\ open_quotes(content) # {}
        /\ error.line = line_of(content, first_of(open_quotes(content)))

\* An unterminated literal that opens on line 3, after two complete lines,
\* and runs over a line break to the end of the input.
C4_Witness ==
    /\ outcome = "error"
    /\ error.message = "Unterminated string"
    /\ error.line = 3
    /\ stream.line = 4

\* The numbers between the commas of an argument list, -1 for an empty place.
RECURSIVE arg_groups(_, _, _, _)
arg_groups(items, i, cur, acc) ==
    IF i > Len(items) THEN Append(acc, cur)
    ELSE IF items[i] = "C" THEN arg_groups(items, i + 1, -1, Append(acc, cur))
    ELSE arg_groups(items, i + 1, (IF cur < 0 THEN 0 ELSE cur) * 10 + (i % 10), acc)

arguments(in) == arg_groups(in.items, 1, -1, <<>>)

well_formed(args, n) == Len(args) = n /\ \A i \in 1..Len(args) : args[i] >= 0

constructed(name, a) ==
    IF name = sColor
    THEN ColorOf(Fin(FALSE, a[1], 0), Fin(FALSE, a[2], 0), Fin(FALSE, a[3], 0), Fin(FALSE, a[4], 0))
    ELSE Vector2Of(Fin(FALSE, a[1], 0), Fin(FALSE, a[2], 0))

constructor_result(name, args) ==
    IF well_formed(args, IF name = sColor THEN 4 ELSE 2)
    THEN /\ outcome = "ok"
         /\ pvalues = <<Entry(<<>>, <<Entry(kKey, constructed(name, args))>>)>>
    ELSE /\ outcome = "error"
         /\ error.kind = "ParseError"
         /\ error.line = 1
         /\ pvalues = NewMap

(* C5: k=Color(...) is accepted only with exactly 4 and k=Vector2(...) only *)
(* with exactly 2 numbers separated by single commas, and stores r,g,b,a    *)
(* resp. x,y in argument order; every other argument list (empty, too few,  *)
(* too many, a trailing, leading or doubled comma) ends the call with a     *)
(* ParseError and nothing stored.                                           *)
C5_ConstructorArguments ==
    (input.fam = "ctor" /\ outcome # "running") =>
        constructor_result(input.name, arguments(input))

\* Color(1,3,5,7) has been parsed and stored.
C5_Witness ==
    /\ input.fam = "ctor"
    /\ input.name = sColor
    /\ outcome = "ok"
    /\ Len(input.items) = 7

bare_key(k) ==
    /\ Len(k) > 0
    /\ \A i \in 1..Len(k) :
          /\ k[i] >= 33
          /\ k[i] <= 126
          /\ k[i] \notin {chEqual, chQuote, chSemi, chLBracket, chRBracket}

backslashed(str) ==
    Flatten([i \in 1..Len(str) |->
                IF str[i] \in {chBackslash, chQuote} THEN <<chBackslash, str[i]>> ELSE <<str[i]>>])

quoted(str) == <<chQuote>> \o backslashed(str) \o <<chQuote>>

\* [s] LF LF
sHeaderS == <<91, 115, 93, 10, 10>>

\* =7 LF
sEquals7 == <<61, 55, 10>>

(* C6: serialize_config writes a key bare if and only if it is non-empty,   *)
(* every character has a code in 33..126 and none is = " ; [ ]; every other *)
(* key is written in double quotes with each backslash and each double      *)
(* quote preceded by a backslash.                                           *)
C6_KeyQuoting ==
    (input.fam = "key" /\ outcome \in {"saved", "loaded"}) =>
        content = sHeaderS
                  \o (IF bare_key(input.key) THEN input.key ELSE quoted(input.key))
                  \o sEquals7

\* The key a=a has been saved, in quotes.
C6_Witness ==
    /\ input.fam = "key"
    /\ input.key = <<97, 61, 97>>
    /\ outcome = "saved"
    /\ content = <<91, 115, 93, 10, 10, 34, 97, 61, 97, 34, 61, 55, 10>>

\* [s] LF LF k=
sHeaderSK == <<91, 115, 93, 10, 10, 107, 61>>

(* C7: a string value is written in double quotes with only backslash and   *)
(* double quote escaped, line breaks, tabs and carriage returns kept as     *)
(* they are, and parsing the written text returns the identical string      *)
(* under the same key of the same section, with no error.                   *)
C7_StringFidelity ==
    input.fam = "string" =>
        /\ outcome \in {"saved", "loaded"} =>
              content = sHeaderSK \o quoted(input.value.s) \o <<chLF>>
        /\ outcome = "loaded" =>
              /\ lastError = NoError
              /\ values = <<Entry(sSection, <<Entry(kKey, input.value)>>)>>
              /\ round_trips(values, parse_config(content))

\* The two-line string  a LF a  has been saved as a two-line block and
\* parsed back.
C7_Witness ==
    /\ input.fam = "string"
    /\ input.value = Str(<<97, 10, 97>>)
    /\ outcome = "loaded"
    /\ content = <<91, 115, 93, 10, 10, 107, 61, 34, 97, 10, 97, 34, 10>>

\* The next token of the running parse starts with a double quote.
string_ahead ==
    /\ outcome = "running"
    /\ peek_char(content, skip_whitespace(content, stream)) = chQuote

closes_at(tk, q) ==
    IF q = 0
    THEN tk.err.message = "Unterminated string"
    ELSE tk.err = NoError /\ tk.tok.type = "STRING" /\ tk.s.pos = q

before_terminator(text, tk) ==
    tk.err = NoError =>
        peek_char(text, tk.s) \in {chNUL, chLF, chCR, chSpace, chTab, chSemi, chHash}

C9_ContainersParse ==
    (input.fam = "container" /\ outcome # "running") =>
        /\ outcome = "ok"
        /\ Map_has(pvalues, <<>>)
        /\ Map_has(Map_get(pvalues, <<>>), kKey)

(* C10: Object(ClassName, "k":v, ...) and Object(ClassName), alone or       *)
(* nested in arrays and dictionaries, parse without error and the value is  *)
(* stored under the key.                                                    *)
C10_ObjectParses ==
    (input.fam = "object" /\ outcome # "running") =>
        /\ outcome = "ok"
        /\ Map_has(pvalues, <<>>)
        /\ Map_has(Map_get(pvalues, <<>>), kKey)

ends_with_one_newline(text) ==
    /\ Len(text) >= 1
    /\ text[Len(text)] = chLF
    /\ Len(text) >= 2 => text[Len(text) - 1] # chLF

(* C20: for every document the store holds, built by set_value or taken    *)
(* from parse_config, the text of serialize_config ends with exactly one    *)
(* newline: its last character is a line break and the one before is not.   *)
C20_TrailingNewline == ends_with_one_newline(serialize_config(values))

---------------------------------------------------------------------------
(* Merging.                                                                 *)

MergeCalled == call.op = "mergePresets" /\ ~call.threw
MergeReturned == MergeCalled /\ call.writes = 0

\* The options entries of an argument as it was passed; none when its
\* options is missing or undefined.
arg_options(r) ==
    IF truthy(prop_get(Literals.h, r, sOptions))
    THEN Literals.h[prop_get(Literals.h, r, sOptions).r].f
    ELSE <<>>

entry_keys(f) == {f[i].k : i \in 1..Len(f)}

last_defining(lists, k) ==
    CHOOSE i \in 1..Len(lists) :
        /\ k \in entry_keys(lists[i])
        /\ \A j \in (i + 1)..Len(lists) : k \notin entry_keys(lists[j])

\* f is the overlay of the entry lists: the union of their keys, each once,
\* with the value of the last list that has the key.
is_overlay(f, lists) ==
    /\ entry_keys(f) = UNION {entry_keys(lists[i]) : i \in 1..Len(lists)}
    /\ Cardinality(entry_keys(f)) = Len(f)
    /\ \A k \in entry_keys(f) : Map_get(f, k) = Map_get(lists[last_defining(lists, k)], k)

result_options == prop_get(heap, call.v.r, sOptions)

(* C11: after mergePresets of two or more presets the result's options is   *)
(* an object holding exactly the union of the keys of the arguments'       *)
(* options, a missing options counting as empty, each key with the value   *)
(* of the last argument that defines it, a nested value being taken whole; *)
(* mergeOptions of any number of options objects returns the same overlay. *)
C11_OptionsOverlay ==
    /\ (MergeReturned /\ Len(call.args) >= 2) =>
          /\ isPlainObject(heap, result_options)
          /\ is_overlay(heap[result_options.r].f,
                        [i \in 1..Len(call.args) |-> arg_options(call.args[i])])
    /\ call.op = "mergeOptions" =>
          /\ ~call.threw
          /\ isPlainObject(heap, call.v)
          /\ is_overlay(heap[call.v.r].f,
                        [i \in 1..Len(call.args) |-> Literals.h[call.args[i]].f])

\* Three presets merged, two of which give option b different nested
\* values, the result holding the later one.
C11_Witness ==
    /\ MergeReturned
    /\ Len(call.args) = 3
    /\ \E i \in 1..2 : \E j \in (i + 1)..3 :
          /\ <<98>> \in entry_keys(arg_options(call.args[i]))
          /\ <<98>> \in entry_keys(arg_options(call.args[j]))
          /\ deref(Literals.h, Map_get(arg_options(call.args[i]), <<98>>))
                # deref(Literals.h, Map_get(arg_options(call.args[j]), <<98>>))
          /\ <<98>> \notin entry_keys(arg_options(call.args[3])) \/ j = 3
          /\ Map_get(heap[result_options.r].f, <<98>>) = Map_get(arg_options(call.args[j]), <<98>>)

\* The key-by-key recursive merge of two object literals: a's fields in
\* order, each with b's value where b has the field, merged again where both
\* values are objects, then b's other fields.
RECURSIVE tree_merge(_, _)
tree_merge_value(a, b, k) ==
    IF ~Map_has(b.f, k) THEN Map_get(a.f, k)
    ELSE IF Map_get(a.f, k).t = "obj" /\ Map_get(b.f, k).t = "obj"
         THEN tree_merge(Map_get(a.f, k), Map_get(b.f, k))
         ELSE Map_get(b.f, k)

tree_merge(a, b) ==
    Obj([i \in 1..Len(a.f) |-> Entry(a.f[i].k, tree_merge_value(a, b, a.f[i].k))]
        \o SelectSeq(b.f, LAMBDA e : ~Map_has(a.f, e.k)))

\* An object literal without its top-level field options.
non_options(tree) == Obj(SelectSeq(tree.f, LAMBDA e : e.k # sOptions))

argument_tree(i) == deref(Literals.h, Ref(call.args[i]))

(* C12: after mergePresets(a, b) the fields of the result other than        *)
(* options are the recursive merge of a's and b's: a field only in a kept,  *)
(* a field whose value in b is a scalar or an array taken from b, a field   *)
(* holding an object in both merged key by key, at every nesting level and  *)
(* for every field name.                                                    *)
C12_DeepMergeEveryLevel ==
    (MergeReturned /\ Len(call.args) = 2) =>
        non_options(deref(heap, call.v))
            = tree_merge(non_options(argument_tree(1)), non_options(argument_tree(2)))

\* The options objects of the arguments as they were passed.
argument_options ==
    {prop_get(Literals.h, call.args[i], sOptions).r :
        i \in {j \in 1..Len(call.args) : truthy(prop_get(Literals.h, call.args[j], sOptions))}}

argument_objects == {call.args[i] : i \in 1..Len(call.args)}

(* C13: once mergePresets has returned for one or more presets, and also    *)
(* after a top-level field or an options entry of the result has been       *)
(* assigned, every argument has the top-level fields and the options        *)
(* entries it was passed with; the result is none of the arguments and its  *)
(* options, when it is an object, is none of the arguments' options.        *)
C13_ArgumentsUntouched ==
    MergeCalled =>
        /\ \A r \in argument_objects \cup argument_options : heap[r] = Literals.h[r]
        /\ call.v.t = "ref"
        /\ call.v.r \notin argument_objects
        /\ result_options.t = "ref" => result_options.r \notin argument_options

\* One preset was merged and option a of the result was assigned afterwards,
\* the argument still holding its own value of a.
C13_Witness ==
    /\ MergeCalled
    /\ Len(call.args) = 1
    /\ call.writes = 1
    /\ Map_has(arg_options(call.args[1]), <<97>>)
    /\ result_options.t = "ref"
    /\ prop_get(heap, result_options.r, <<97>>) = Str(sZ)
    /\ prop_get(heap, prop_get(heap, call.args[1], sOptions).r, <<97>>) = Num(One)

---------------------------------------------------------------------------
(* Preset operations.                                                       *)

found_list == presets_of(heap, call.file)

equal_trimmed_ignoring_case(a, b) == toUpperCase(trim(a)) = toUpperCase(trim(b))

\* The preset is one the search asks for, every criterion that is given
\* being compared.
asked_for(preset, criteria) ==
    \/ /\ criteria.platform # Undefined
       /\ equal_trimmed_ignoring_case(prop_get(heap, preset, sPlatform).s, criteria.platform.s)
    \/ /\ criteria.name # Undefined
       /\ equal_trimmed_ignoring_case(prop_get(heap, preset, sName).s, criteria.name.s)

\* The same, a criterion that is the empty string being left out.
asked_for_nonempty(preset, criteria) ==
    \/ /\ criteria.platform \notin {Undefined, Str(<<>>)}
       /\ equal_trimmed_ignoring_case(prop_get(heap, preset, sPlatform).s, criteria.platform.s)
    \/ /\ criteria.name \notin {Undefined, Str(<<>>)}
       /\ equal_trimmed_ignoring_case(prop_get(heap, preset, sName).s, criteria.name.s)

at_index(list, i) == IF i >= 0 /\ i < Len(list) THEN list[i + 1] ELSE Undefined

\* v is the first element of the list among those at the positions wanted,
\* undefined when there is none.
is_first_of(v, list, wanted) ==
    IF wanted = {} THEN v = Undefined
    ELSE v = list[CHOOSE i \in wanted : \A j \in wanted : i <= j]

(* C14 as stated: findPreset with criteria.index given returns the preset   *)
(* at that index, undefined when out of range, whatever the other criteria; *)
(* otherwise it returns the first preset in list order whose platform      *)
(* equals criteria.platform or whose name equals criteria.name, after      *)
(* trimming and ignoring case, and undefined when there is none.           *)
C14_FindPresetAnyCriterion ==
    call.op = "findPreset" =>
        IF call.criteria.index # Undefined
        THEN call.v = at_index(found_list, call.criteria.index.i)
        ELSE is_first_of(call.v, found_list,
                {i \in 1..Len(found_list) : asked_for(found_list[i].r, call.criteria)})

(* C14: the same, where a criterion that is absent or the empty string      *)
(* takes no part in the comparison.                                         *)
C14_FindPreset ==
    call.op = "findPreset" =>
        IF call.criteria.index # Undefined
        THEN call.v = at_index(found_list, call.criteria.index.i)
        ELSE is_first_of(call.v, found_list,
                {i \in 1..Len(found_list) : asked_for_nonempty(found_list[i].r, call.criteria)})

\* A search by the platform " B " alone that passes over the first preset
\* and returns the second, whose platform is written "b ".
C14_Witness ==
    /\ call.op = "findPreset"
    /\ call.criteria = [index |-> Undefined, platform |-> Str(<<32, 66, 32>>), name |-> Undefined]
    /\ Len(found_list) >= 2
    /\ call.v = found_list[2]
    /\ call.v # found_list[1]
    /\ prop_get(heap, call.v.r, sPlatform) = Str(<<98, 32>>)

\* The list with p in the place of its element at the zero-based index i,
\* and the list without that element.
list_with(list, i, p) == [k \in 1..Len(list) |-> IF k = i + 1 THEN p ELSE list[k]]
list_without(list, i) == [k \in 1..(Len(list) - 1) |-> IF k <= i THEN list[k] ELSE list[k + 1]]

in_list(list, index) == index # Undefined /\ index.i >= 0 /\ index.i < Len(list)

\* What the call made by this step was to return for the list it was given.
set_result(list) ==
    IF in_list(list, call'.index)
    THEN list_with(list, call'.index.i, Ref(call'.preset))
    ELSE Append(list, Ref(call'.preset))

remove_result(list) ==
    IF in_list(list, call'.index)
    THEN presets_of(heap', call'.v.r) = list_without(list, call'.index.i)
    ELSE call'.v.r = call'.file

ListStep ==
    /\ call'.op = "setPreset" =>
          presets_of(heap', call'.v.r) = set_result(presets_of(heap, call'.file))
    /\ call'.op = "removePreset" => remove_result(presets_of(heap, call'.file))
    /\ \A file \in Files : presets_of(heap', file) = presets_of(heap, file)

(* C15: in every call of a sequence of calls, setPreset(f, p, i) returns a  *)
(* file whose list is f's with p in the place of element i when i is in     *)
(* range and f's with p appended when i is omitted, negative or too large;  *)
(* removePreset(f, i) returns a file whose list is f's without element i,   *)
(* the others in order, when i is in range and returns f itself otherwise;  *)
(* the list of f, and of every file there was, is what it was before.       *)
C15_ListSemantics == [][ListStep]_vars

\* A preset was removed from a file that an earlier setPreset returned, and
\* the first file still has the list it began with.
C15_Witness ==
    /\ call.op = "removePreset"
    /\ call.file # input.file
    /\ call.v.r # call.file
    /\ Len(presets_of(heap, call.v.r)) = 2
    /\ Len(presets_of(heap, call.file)) = 3
    /\ presets_of(heap, input.file) = [i \in 1..Len(input.presets) |-> Ref(input.presets[i])]

---------------------------------------------------------------------------
(* The export presets file.                                                 *)

ParseReturned == call.op = "parseExportPresets" /\ ~call.threw

\* The document parseExportPresets read, and the presets it returned.
read_document == parse_config(content).values
extracted == prop_value(call.v, sPresets).items

\* A section name of the form preset.<N>, N a decimal integer, and its N.
is_numbered(s) ==
    /\ startsWith(s, sPresetDot)
    /\ Len(s) > Len(sPresetDot)
    /\ \A i \in (Len(sPresetDot) + 1)..Len(s) : isDigit(s[i])

number_of(s) == digits_value(s, Len(sPresetDot) + 1, 0)

ascending(sections) ==
    \A i \in 1..Len(sections) : \A j \in (i + 1)..Len(sections) :
        number_of(sections[i]) < number_of(sections[j])

(* C16: parseExportPresets returns one preset for each section named        *)
(* preset.<N> with N a decimal integer and none for any other section, the  *)
(* presets in ascending order of N whatever the order of the sections in    *)
(* the text.                                                                *)
C16_NumberedSectionsOnly ==
    ParseReturned =>
        /\ \A i \in 1..Len(call.sections) : is_numbered(call.sections[i])
        /\ \A s \in {read_document[i].k : i \in 1..Len(read_document)} :
              is_numbered(s) =>
                  Cardinality({i \in 1..Len(call.sections) : call.sections[i] = s}) = 1
        /\ Len(extracted) = Len(call.sections)
        /\ ascending(call.sections)

\* The entries of an object are those of a section: the same keys, each
\* once, with the same values.
same_entries(f, g) ==
    /\ {f[i].k : i \in 1..Len(f)} = {g[i].k : i \in 1..Len(g)}
    /\ Cardinality({f[i].k : i \in 1..Len(f)}) = Len(f)
    /\ \A i \in 1..Len(f) : f[i].v = Map_get(g, f[i].k)

\* The preset holds what its section and the options section of its section
\* hold in the document.
carries(preset, vals, section) ==
    /\ \A i \in 1..Len(Map_get(vals, section)) :
          Map_get(vals, section)[i].k # sOptions =>
              /\ Map_has(preset.f, Map_get(vals, section)[i].k)
              /\ Map_get(preset.f, Map_get(vals, section)[i].k) = Map_get(vals, section)[i].v
    /\ IF Map_has(vals, section \o sDotOptions)
       THEN /\ prop_value(preset, sOptions).t = "obj"
            /\ same_entries(prop_value(preset, sOptions).f, Map_get(vals, section \o sDotOptions))
       ELSE prop_value(preset, sOptions) = Undefined

(* C17: every preset parseExportPresets returns has each key of its section *)
(* other than options with the value the document has for it; its options   *)
(* is the mapping of the keys of the options section of its section when    *)
(* the document has that section, also when the section is empty, and is    *)
(* undefined when it has not.                                               *)
C17_PresetContent ==
    ParseReturned =>
        \A i \in 1..Len(extracted) : carries(extracted[i], read_document, call.sections[i])

\* The text had the sections preset.2, with a key options, and
\* preset.2.options, without keys, and preset.0 alone: the preset of the
\* first has the empty mapping as options, that of the second none.
C17_Witness ==
    /\ ParseReturned
    /\ call.sections = <<sPresetDot \o <<chZero>>, sPresetDot \o <<50>>>>
    /\ prop_value(extracted[1], sOptions) = Undefined
    /\ prop_value(extracted[1], <<107>>) = Num(One)
    /\ prop_value(extracted[2], sOptions) = Obj(<<>>)
    /\ Map_has(Map_get(read_document, call.sections[2]), sOptions)

\* Two presets are deep-equal: the same fields with the same values, and
\* the same options entries, or no options in either.
options_equal(o1, o2) ==
    IF o2.t = "obj" THEN o1.t = "obj" /\ same_entries(o1.f, o2.f) ELSE o1 = o2

preset_equal(p1, p2) ==
    /\ same_entries(not_options(p1.f), not_options(p2.f))
    /\ Map_has(p1.f, sOptions) = Map_has(p2.f, sOptions)
    /\ options_equal(prop_value(p1, sOptions), prop_value(p2, sOptions))

serialized_presets == prop_value(input.presets, sPresets).items

(* C18: for a file whose presets have name, platform, runnable and further  *)
(* string, boolean or number fields and options that are absent, empty or   *)
(* a mapping of such values, parseExportPresets of the text that            *)
(* serializeExportPresets gives does not throw and returns presets          *)
(* deep-equal to the file's, one for one in the same order.                 *)
C18_FileRoundTrip ==
    (call.op = "parseExportPresets" /\ input.fam = "presets") =>
        /\ ~call.threw
        /\ Len(extracted) = Len(serialized_presets)
        /\ \A i \in 1..Len(extracted) : preset_equal(extracted[i], serialized_presets[i])

---------------------------------------------------------------------------
(* Usage errors.                                                            *)

stored(vals, section, key) ==
    \E i \in 1..Len(vals) :
        vals[i].k = section /\ \E j \in 1..Len(vals[i].v) : vals[i].v[j].k = key

stored_at(vals, i, key) == vals[i].v[CHOOSE j \in 1..Len(vals[i].v) : vals[i].v[j].k = key].v

value_stored(vals, section, key) ==
    stored_at(vals, CHOOSE i \in 1..Len(vals) : vals[i].k = section, key)

\* What the step's call of get_value did, for the document it was made on.
get_value_step ==
    IF stored(values, call'.section, call'.key)
    THEN call'.ret = [threw |-> FALSE, v |-> value_stored(values, call'.section, call'.key)]
    ELSE IF call'.defaultValue = Undefined
    THEN call'.ret.threw
    ELSE call'.ret = [threw |-> FALSE, v |-> call'.defaultValue]

UsageStep ==
    call' # call =>
        /\ call'.op = "get_value" => get_value_step
        /\ (call'.op = "mergePresets" /\ Len(call'.args) = 0) => call'.threw

(* C19: every call of mergePresets with no preset throws; every call of     *)
(* get_value throws when the section or the key is missing and no default   *)
(* is supplied, returns the default when one is supplied and the section or *)
(* the key is missing, and returns the stored value, not the default,       *)
(* whenever the key exists.                                                 *)
C19_UsageErrors == [][UsageStep]_vars

\* get_value was called with a default for a key that is stored with the
\* value undefined, and returned undefined.
C19_Witness ==
    /\ call.op = "get_value"
    /\ call.defaultValue = Num(Half)
    /\ stored(values, call.section, call.key)
    /\ value_stored(values, call.section, call.key) = Undefined
    /\ call.ret = [threw |-> FALSE, v |-> Undefined]

---------------------------------------------------------------------------
(* Section names, keys and containers on the way out and back.              *)

has_bracket(name) == \E i \in 1..Len(name) : name[i] = chRBracket

one_section(name, r) == r.error = NoError /\ Map_keys(r.values) = <<name>>

(* C21: a section whose name contains ']' is written with the bracket as    *)
(* \] and the saved text parses back, without error, to one section of      *)
(* exactly that name: the escaped bracket does not close the header.        *)
C21_EscapedBracketSection ==
    (input.fam = "section" /\ outcome = "saved" /\ has_bracket(input.section)) =>
        one_section(input.section, parse_config(content))

---------------------------------------------------------------------------
(* The top level of parse_config.                                           *)

\* The number an argument text stands for:  1  +Infinity  -Infinity  NaN
sentinel_number(a) ==
    IF a = 1 THEN Fin(FALSE, 1, 0)
    ELSE IF a = 2 THEN PosInfinity
    ELSE IF a = 3 THEN NegInfinity
    ELSE NaN

sentinel_value(name, n) ==
    IF name = sColor THEN ColorOf(n[1], n[2], n[3], n[4]) ELSE Vector2Of(n[1], n[2])

sentinel_numbers(in) == [i \in 1..Len(in.args) |-> sentinel_number(in.args[i])]

(* C22: in the argument list of Color(...) and Vector2(...) each of the     *)
(* words inf, -inf and nan stands where a number may stand: the call parses *)
(* without error and the component is +Infinity, -Infinity resp. NaN.       *)
C22_SentinelArguments ==
    (input.fam = "sentinel" /\ outcome # "running") =>
        /\ outcome = "ok"
        /\ pvalues = <<Entry(<<>>, <<Entry(kKey, sentinel_value(input.name, sentinel_numbers(input)))>>)>>

\* The text after "k=" on the only key line of a saved document of one
\* section s and one key k.
value_text(text) == SubSeq(text, Len(sHeaderS) + 3, Len(text) - 1)

sObjectOpen == <<79, 98, 106, 101, 99, 116, 40>>

begins_with(text, p) == Len(text) >= Len(p) /\ SubSeq(text, 1, Len(p)) = p

enclosed(text, open, close) ==
    /\ Len(text) >= Len(open) + 1
    /\ begins_with(text, open)
    /\ text[Len(text)] = close

\* The outer syntax of the three container values: [ ... ], { ... } and
\* Object( ... ).
written_as(kind, text) ==
    IF kind = "array" THEN enclosed(text, <<chLBracket>>, chRBracket)
    ELSE IF kind = "dictionary" THEN enclosed(text, <<123>>, 125)
    ELSE enclosed(text, sObjectOpen, chRParen)

(* C23: serialize_config writes an Array as a bracketed list, a Dictionary  *)
(* as a braced list and a ClassObject as Object(...): the text after the    *)
(* key is always in the value syntax of the parser, never another           *)
(* rendering of the value.                                                  *)
C23_ContainersWritten ==
    (input.fam = "value" /\ outcome = "saved") =>
        /\ begins_with(content, sHeaderS \o kKey \o <<chEqual>>)
        /\ written_as(input.kind, value_text(content))

\* What one get_token call does to the stream: it ends on the end-of-input
\* token with the whole text read, or it has consumed at least one character
\* (also when it throws).
token_moved(text, s, t) ==
    \/ (t.err = NoError /\ t.tok.type = "EOF" /\ t.s.pos = Len(text))
    \/ (t.s.pos > s.pos /\ t.s.pos <= Len(text))

tokens_move(text) ==
    \A p \in 0..Len(text) :
        token_moved(text, [pos |-> p, line |-> 1], get_token(text, [pos |-> p, line |-> 1]))

\* A step of a call: none once the call has returned, and one iteration of
\* the top-level loop consumes input or ends the call.
LoopStep ==
    /\ outcome = "running"
    /\ stream'.pos >= stream.pos
    /\ stream'.pos <= Len(content)
    /\ (stream'.pos > stream.pos \/ outcome' # "running")

\* A running call has a next iteration, and that iteration is a step.
can_iterate == outcome = "running" => parse_iteration(content, Locals) # Locals

ended_well ==
    /\ outcome # "thrown"
    /\ outcome = "ok" => (error = NoError /\ stream.pos = Len(content))
    /\ outcome = "error" => error.kind = "ParseError"

(* C24: parse_config terminates on every text: each get_token call, from    *)
(* any position, consumes a character or returns the end-of-input token;    *)
(* a call that has not returned always has a next iteration, which moves    *)
(* forward in the text or ends the call; and the call does end, at the end  *)
(* of the input with no error or at the first error with a ParseError.      *)
C24_Termination ==
    /\ [](tokens_move(content))
    /\ [](can_iterate)
    /\ [][LoopStep]_vars
    /\ [](ended_well)
    /\ <>(outcome \in {"ok", "error"})

\* A call that has ended at end of input after four iterations: two lines,
\* then s=1 followed by a comment that runs to the end of the text.
C24_Witness ==
    /\ outcome = "ok"
    /\ input.fam = "frags"
    /\ input.pre = Preamble
    /\ input.items = <<1, 2, 3, 6>>
    /\ stream.pos = Len(content)

(* C25: for every key string, whatever characters it is made of, the text   *)
(* written for a document with that one key in section s parses back with   *)
(* no error to a document holding the same value under exactly that key in  *)
(* section s.                                                               *)
C25_KeyRoundTrip ==
    (input.fam = "key" /\ outcome = "saved") =>
        round_trips(values, parse_config(content))

\* The sections of a document in order, each with its keys in order.
membership(vals) == [i \in 1..Len(vals) |-> Entry(vals[i].k, Map_keys(vals[i].v))]

members_survive(vals, r) == r.error = NoError => membership(r.values) = membership(vals)

(* C26: where the text written for a document parses back, the parsed       *)
(* document has the same sections in the same order and every key in the    *)
(* section it was set in, whatever the order in which the sections were     *)
(* created: keys of the section-less "" bucket are still in the "" bucket.  *)
C26_SectionsSurvive == members_survive(values, parse_config(serialize_config(values)))

---------------------------------------------------------------------------
(* The ConfigFile store.                                                    *)

\* The sections and keys a property looks at: those of the calls and those
\* two stores hold.
sections_of(b, a) ==
    StoreSections \cup {b[i].k : i \in 1..Len(b)} \cup {a[i].k : i \in 1..Len(a)}

keys_in(vals) == UNION {{vals[i].v[j].k : j \in 1..Len(vals[i].v)} : i \in 1..Len(vals)}

keys_of(b, a) == StoreKeys \cup keys_in(b) \cup keys_in(a)

\* Key k of section s answers the same before and after.
same_answer(b, a, s, k) ==
    /\ has_section_key(a, s, k) = has_section_key(b, s, k)
    /\ get_value_result(a, s, k, Undefined) = get_value_result(b, s, k, Undefined)

\* What set_value(section, key, value) does to the answers of the queries,
\* b being the store before and a the store after.
set_effect(b, a, section, key, value) ==
    /\ get_value_result(a, section, key, Undefined) = value_returned(value)
    /\ has_section(a, section)
    /\ has_section_key(a, section, key)
    /\ get_sections(a) =
          (IF has_section(b, section) THEN get_sections(b)
           ELSE Append(get_sections(b), section))
    /\ get_section_keys(a, section) =
          (IF has_section_key(b, section, key) THEN get_section_keys(b, section)
           ELSE Append(get_section_keys(b, section), key))
    /\ \A s \in sections_of(b, a) \ {section} :
          /\ has_section(a, s) = has_section(b, s)
          /\ get_section_keys(a, s) = get_section_keys(b, s)
    /\ \A s \in sections_of(b, a), k \in keys_of(b, a) :
          (s # section \/ k # key) => same_answer(b, a, s, k)

\* After clear every query answers as on a new ConfigFile.
clear_effect(a) ==
    /\ get_sections(a) = <<>>
    /\ \A s \in sections_of(a, a) :
          /\ ~has_section(a, s)
          /\ get_section_keys(a, s) = <<>>
          /\ \A k \in keys_of(a, a) :
                /\ ~has_section_key(a, s, k)
                /\ get_value_result(a, s, k, Undefined) = usage_error

StoreStep ==
    /\ call'.op = "set_value" =>
          set_effect(values, values', call'.section, call'.key, call'.value)
    /\ call'.op = "clear" => clear_effect(values')

(* C27: on one ConfigFile, set_value(s,k,v) makes get_value(s,k) return v   *)
(* and has_section(s), has_section_key(s,k) true; a new section resp. key   *)
(* goes to the end of get_sections resp. get_section_keys(s) and an         *)
(* existing one keeps its place; every other section and key answers as     *)
(* before; and after clear nothing is there any more.  Step by step this is *)
(* the store semantics over any sequence of set_value and clear calls: the  *)
(* most recent value since the last clear, in order of first insertion.     *)
C27_StoreSemantics == [][StoreStep]_vars

\* The first of two keys of section s has just been overwritten and is still
\* the first.
C27_Witness ==
    /\ call.op = "set_value"
    /\ call.section = sSection
    /\ call.key = kKey
    /\ call.value = Bool(TRUE)
    /\ get_sections(values) = <<<<>>, sSection>>
    /\ get_section_keys(values, sSection) = <<kKey, sKeyAEqB>>
    /\ get_value_result(values, sSection, sKeyAEqB, Undefined) = value_returned(Num(Seven))

\* Statement i of a text, the section it stands in (named by the last
\* header before it, "" before the first header), and where sections are
\* opened and keys assigned.
item(in, i) == Statements[in.items[i]]

last_of(S) == CHOOSE i \in S : \A j \in S : j <= i

headers_before(in, i) == {j \in 1..(i - 1) : item(in, j).kind = "header"}

section_at(in, i) ==
    IF headers_before(in, i) = {} THEN <<>> ELSE item(in, last_of(headers_before(in, i))).name

opened_at(in, s) ==
    {i \in 1..Len(in.items) :
        \/ (item(in, i).kind = "header" /\ item(in, i).name = s)
        \/ (item(in, i).kind = "pair" /\ section_at(in, i) = s)}

assigned_at(in, s, k) ==
    {i \in 1..Len(in.items) :
        item(in, i).kind = "pair" /\ section_at(in, i) = s /\ item(in, i).key = k}

TopSections == {<<>>, sSection, sOther}
TopKeys == {kKey, kOther}

\* m lists exactly the names of S that occur, each once, in the order of
\* their first occurrence.
lists_in_order(m, S, at(_)) ==
    /\ \A x \in S : Map_has(m, x) <=> at(x) # {}
    /\ \A p \in 1..Len(m) : m[p].k \in S
    /\ \A p, q \in 1..Len(m) : p < q => first_of(at(m[p].k)) < first_of(at(m[q].k))

section_overlaid(in, s, keys) ==
    /\ LET at(k) == assigned_at(in, s, k) IN lists_in_order(keys, TopKeys, at)
    /\ \A j \in 1..Len(keys) :
          keys[j].v = item(in, last_of(assigned_at(in, s, keys[j].k))).value

overlaid(in, vals) ==
    /\ LET at(s) == opened_at(in, s) IN lists_in_order(vals, TopSections, at)
    /\ \A p \in 1..Len(vals) : section_overlaid(in, vals[p].k, vals[p].v)

no_error_in(in) == \A i \in 1..Len(in.items) : item(in, i).kind # "error"

(* C28: a text of headers and key/value pairs parses without error however  *)
(* often a key is assigned or a section is opened: the document lists each  *)
(* section once, in the order of first opening, with each of its keys once, *)
(* in the order of first assignment, holding the value of the last          *)
(* assignment; a header naming an existing section makes it current again   *)
(* and keeps the keys it has.                                               *)
C28_Overlays ==
    (input.fam = "statements" /\ outcome # "running" /\ no_error_in(input)) =>
        /\ outcome = "ok"
        /\ overlaid(input, pvalues)

\* [s] k=1 [t] [s] k=2 has been parsed: section s was opened again after t
\* and its key k assigned a second time.
C28_Witness ==
    /\ input.fam = "statements"
    /\ input.items = <<1, 3, 2, 1, 4>>
    /\ outcome = "ok"
    /\ pvalues = <<Entry(sSection, <<Entry(kKey, Num(Fin(FALSE, 2, 0)))>>), Entry(sOther, <<>>)>>

\* What parse(text) does to the store, r being what parse_config returns
\* for the text and ret what parse returned.
parse_effect(b, a, ret, r) ==
    /\ ret = r.error
    /\ ret # NoError => a = b
    /\ ret = NoError =>
          /\ a = r.values
          /\ \A s \in sections_of(b, a) :
                /\ has_section(a, s) = has_section(r.values, s)
                /\ get_section_keys(a, s) = get_section_keys(r.values, s)

ParseStep ==
    call'.op = "parse" => parse_effect(values, values', lastError', parse_config(call'.text))

(* C29: ConfigFile.parse is all-or-nothing on the store.  When it returns   *)
(* an error the sections, keys and values are exactly those from before the *)
(* call, the partly parsed document being dropped; when it returns no error *)
(* the store is the parsed document, so a section or key from before is     *)
(* there only if the text defines it.                                       *)
C29_ParseAllOrNothing == [][ParseStep]_vars

\* parse of "[s] LF k=" has just failed after opening section s, on a store
\* that holds one key in the "" bucket: the store is as it was.
C29_Witness ==
    /\ call.op = "parse"
    /\ call.text = <<91, 115, 93, 10, 107, 61>>
    /\ lastError # NoError
    /\ parse_config(call.text).values = <<Entry(sSection, <<>>)>>
    /\ values = <<Entry(<<>>, <<Entry(kKey, Bool(TRUE))>>)>>

\* The token types the top-level dispatch has no branch for.
StrayTypes == {"NUMBER", "BOOLEAN", "EQUAL", "COMMA", "PARENTHESIS_OPEN", "PARENTHESIS_CLOSE"}

\* The token types it has a branch for.
TakenTypes == {"BRACKET_OPEN", "IDENTIFIER", "STRING", "BRACKET_CLOSE", "EOF"}

\* Every token the lexer hands to the top level is of one or the other.
types_listed == outcome = "running" => FirstType \in StrayTypes \cup TakenTypes \cup {"THROWN"}

\* An iteration that starts on a stray token consumes it and nothing else
\* changes: the loop goes on with the same document and section.
SkipStep ==
    (outcome = "running" /\ FirstType \in StrayTypes) =>
        /\ stream'.pos > stream.pos
        /\ pvalues' = pvalues
        /\ currentSection' = currentSection
        /\ outcome' = "running"
        /\ error' = NoError

\* The statements of a text that are not stray tokens.
without_stray(items) == SelectSeq(items, LAMBDA i : Statements[i].kind # "stray")

\* A finished call on a text of statements returned what the text without
\* its lines of stray tokens returns.
same_document(r) == pvalues = r.values /\ (error = NoError) = (r.error = NoError)

stray_lines_ignored ==
    (input.fam = "statements" /\ outcome # "running") =>
        same_document(parse_config(RenderTop([input EXCEPT !.items = without_stray(input.items)])))

\* k=1.2.3 sets k to 1.2 and true=5 sets nothing, both with no error.
stray_examples ==
    (input.fam = "statements" /\ outcome # "running") =>
        /\ input.items = <<7>> =>
              /\ outcome = "ok" /\ error = NoError
              /\ pvalues = <<Entry(<<>>, <<Entry(kKey, Num(Fin(FALSE, 12, -1)))>>)>>
        /\ input.items = <<6>> => outcome = "ok" /\ error = NoError /\ pvalues = NewMap

(* C30: stray top-level tokens are skipped silently.  A token at the top    *)
(* level of parse_config that is a number, a boolean, '=', ',', '(' or ')' *)
(* (every type but '[', identifier, string, ']' and end of input) is       *)
(* consumed without a ParseError and without changing the document or the  *)
(* current section; the texts k=1.2.3 and true=5 parse with no error.      *)
C30_StrayTokensSkipped ==
    /\ [](types_listed)
    /\ [][SkipStep]_vars
    /\ [](stray_lines_ignored)
    /\ [](stray_examples)

\* In "[s] LF k=1 LF true=5 LF" the boolean has been skipped and the '='
\* after it comes next; the document and the section are as k=1 left them.
C30_Witness ==
    /\ input.fam = "statements"
    /\ input.items = <<1, 3, 6>>
    /\ outcome = "running"
    /\ FirstType = "EQUAL"
    /\ currentSection = sSection
    /\ pvalues = <<Entry(sSection, <<Entry(kKey, Num(Fin(FALSE, 1, 0)))>>)>>

====
